---- MODULE Spec2Model ----
(***************************************************************************)
(* Model of the CherryStudio prompt tools: compile.py (Markdown documents  *)
(* to a JSON catalog), validate.py (schema checks on a catalog) and fix.py *)
(* (in-place repair of a catalog).                                         *)
(*                                                                         *)
(* A Python str is a sequence of code points (naturals), so that ord(),    *)
(* len(), strip(), lower(), startswith() and substring search are computed *)
(* as Python computes them.  A JSON value is a record [t, v] tagged with   *)
(* its Python type; a key that is missing from a dict is the value Absent. *)
(***************************************************************************)
EXTENDS Integers, Sequences, FiniteSets, TLC

\* ---------------------------------------------------------------------
\* Bounds of the model
\* ---------------------------------------------------------------------
\* largest number of records in a catalog
MaxRecords == 2
\* number of times the fixer is run over the same catalog file
MaxRuns == 2

\* ---------------------------------------------------------------------
\* JSON values as Python sees them after json.loads
\* ---------------------------------------------------------------------
Absent == [t |-> "absent", v |-> <<>>]
Null == [t |-> "null", v |-> <<>>]
B(b) == [t |-> "bool", v |-> b]
I(n) == [t |-> "int", v |-> n]
S(s) == [t |-> "str", v |-> s]
L(xs) == [t |-> "list", v |-> xs]

Fields == {"id", "name", "description", "emoji", "group", "prompt"}

\* dict.get(key, default): the default only when the key is missing
Get(p, f, d) == IF p[f] = Absent THEN d ELSE p[f]

\* isinstance(x, str), isinstance(x, list), isinstance(x, int): bool is a
\* subclass of int in Python
IsStr(x) == x.t = "str"
IsList(x) == x.t = "list"
IsInt(x) == x.t \in {"int", "bool"}

\* truth value of a Python object (bool(x))
Truthy(x) ==
  CASE x.t = "null" -> FALSE
    [] x.t = "bool" -> x.v
    [] x.t = "int" -> x.v # 0
    [] x.t = "str" -> Len(x.v) > 0
    [] x.t = "list" -> Len(x.v) > 0
    [] OTHER -> FALSE

\* a == b in Python: True == 1 and False == 0, a str never equals a number
NumOf(x) == IF x.t = "bool" THEN (IF x.v THEN 1 ELSE 0) ELSE x.v
PyEq(a, b) ==
  IF IsInt(a) /\ IsInt(b) THEN NumOf(a) = NumOf(b) ELSE a = b

\* ---------------------------------------------------------------------
\* str primitives
\* ---------------------------------------------------------------------
NL == 10
SP == 32
DASH == 45
HASH == 35
COLON == 58

\* str.isspace() of one character; also what \s matches in a str pattern
IsSpace(c) ==
  \/ c \in 9..13
  \/ c \in 28..32
  \/ c \in {133, 160, 5760, 8232, 8233, 8239, 8287, 12288}
  \/ c \in 8192..8202

RECURSIVE LStrip(_)
LStrip(s) ==
  IF s = <<>> THEN <<>>
  ELSE IF IsSpace(Head(s)) THEN LStrip(Tail(s)) ELSE s

RECURSIVE RStrip(_)
RStrip(s) ==
  IF s = <<>> THEN <<>>
  ELSE IF IsSpace(s[Len(s)]) THEN RStrip(SubSeq(s, 1, Len(s) - 1)) ELSE s

\* str.strip()
Strip(s) == RStrip(LStrip(s))

\* str.startswith(pre)
StartsWith(s, pre) ==
  /\ Len(s) >= Len(pre)
  /\ SubSeq(s, 1, Len(pre)) = pre

\* str.endswith(suf)
EndsWith(s, suf) ==
  /\ Len(s) >= Len(suf)
  /\ SubSeq(s, Len(s) - Len(suf) + 1, Len(s)) = suf

\* pat occurs in text at 1-based position i
MatchAt(text, pat, i) ==
  /\ i + Len(pat) - 1 <= Len(text)
  /\ SubSeq(text, i, i + Len(pat) - 1) = pat

\* pat in text
Contains(text, pat) ==
  \E i \in 1..(Len(text) + 1) : MatchAt(text, pat, i)

\* str.lower() on the characters the inputs use: A-Z map to a-z, every
\* other character of the input alphabets has no lower-case form
LowerChar(c) == IF c \in 65..90 THEN c + 32 ELSE c
Lower(s) == [i \in 1..Len(s) |-> LowerChar(s[i])]

\* str(n) of an integer
RECURSIVE StrNat(_)
StrNat(n) == IF n < 10 THEN <<48 + n>> ELSE StrNat(n \div 10) \o <<48 + (n % 10)>>
StrInt(n) == IF n < 0 THEN <<DASH>> \o StrNat(0 - n) ELSE StrNat(n)

\* str.isdigit(): non-empty and every character a digit.  Besides 0-9 Python
\* accepts other Unicode digits, of which the superscripts of Latin-1 and the
\* Arabic-Indic digits are kept here
IsDigitChar(c) == c \in 48..57 \/ c \in {178, 179, 185} \/ c \in 1632..1641
IsDigit(s) == Len(s) > 0 /\ \A i \in 1..Len(s) : IsDigitChar(s[i])

\* split a text at "\n" (str.split("\n")): always at least one line
RECURSIVE SplitLines(_)
SplitLines(s) ==
  IF \A i \in 1..Len(s) : s[i] # NL THEN <<s>>
  ELSE LET k == CHOOSE i \in 1..Len(s) : s[i] = NL /\ \A j \in 1..(i - 1) : s[j] # NL
       IN <<SubSeq(s, 1, k - 1)>> \o SplitLines(SubSeq(s, k + 1, Len(s)))

\* "sep".join(parts)
RECURSIVE Join(_, _)
Join(parts, sep) ==
  IF parts = <<>> THEN <<>>
  ELSE IF Len(parts) = 1 THEN parts[1]
  ELSE parts[1] \o sep \o Join(Tail(parts), sep)

\* repr() of a str without quotes, backslashes or control characters
ReprStr(s) == <<39>> \o s \o <<39>>

\* str(x) of a JSON value; a list prints the repr of its elements
RECURSIVE PyStr(_)
PyStr(x) ==
  CASE x.t = "null" -> <<78, 111, 110, 101>>
    [] x.t = "bool" -> IF x.v THEN <<84, 114, 117, 101>> ELSE <<70, 97, 108, 115, 101>>
    [] x.t = "int" -> StrInt(x.v)
    [] x.t = "str" -> x.v
    [] x.t = "list" ->
         <<91>> \o Join([i \in 1..Len(x.v) |->
                           IF x.v[i].t = "str" THEN ReprStr(x.v[i].v) ELSE PyStr(x.v[i])],
                        <<44, 32>>) \o <<93>>
    [] OTHER -> <<>>

\* ---------------------------------------------------------------------
\* fix.py: the Repair Engine
\* ---------------------------------------------------------------------
\* EMOJI_FIXES in insertion order: the substring searched for and the
\* characters of the symbol as the source file spells them
EMOJI_FIXES == <<
  \* product manager
  [pattern |-> <<112, 114, 111, 100, 117, 99, 116, 32, 109, 97, 110, 97, 103, 101, 114>>,
   emoji |-> <<240, 376, 8216, 168, 226, 8364, 240, 376, 8217, 188>>],
  \* pm
  [pattern |-> <<112, 109>>,
   emoji |-> <<240, 376, 8216, 168, 226, 8364, 240, 376, 8217, 188>>],
  \* business
  [pattern |-> <<98, 117, 115, 105, 110, 101, 115, 115>>,
   emoji |-> <<240, 376, 8216, 168, 226, 8364, 240, 376, 8217, 188>>],
  \* strategy
  [pattern |-> <<115, 116, 114, 97, 116, 101, 103, 121>>,
   emoji |-> <<240, 376, 8216, 168, 226, 8364, 240, 376, 8217, 188>>],
  \* marketing
  [pattern |-> <<109, 97, 114, 107, 101, 116, 105, 110, 103>>,
   emoji |-> <<240, 376, 8216, 168, 226, 8364, 240, 376, 8217, 188>>],
  \* startup
  [pattern |-> <<115, 116, 97, 114, 116, 117, 112>>,
   emoji |-> <<240, 376, 353, 8364>>],
  \* founder
  [pattern |-> <<102, 111, 117, 110, 100, 101, 114>>,
   emoji |-> <<240, 376, 353, 8364>>],
  \* developer
  [pattern |-> <<100, 101, 118, 101, 108, 111, 112, 101, 114>>,
   emoji |-> <<240, 376, 8216, 168, 226, 8364, 240, 376, 8217, 187>>],
  \* engineer
  [pattern |-> <<101, 110, 103, 105, 110, 101, 101, 114>>,
   emoji |-> <<240, 376, 8216, 168, 226, 8364, 240, 376, 8217, 187>>],
  \* coding
  [pattern |-> <<99, 111, 100, 105, 110, 103>>,
   emoji |-> <<240, 376, 8216, 168, 226, 8364, 240, 376, 8217, 187>>],
  \* programming
  [pattern |-> <<112, 114, 111, 103, 114, 97, 109, 109, 105, 110, 103>>,
   emoji |-> <<240, 376, 8216, 168, 226, 8364, 240, 376, 8217, 187>>],
  \* software
  [pattern |-> <<115, 111, 102, 116, 119, 97, 114, 101>>,
   emoji |-> <<240, 376, 8216, 168, 226, 8364, 240, 376, 8217, 187>>],
  \* debug
  [pattern |-> <<100, 101, 98, 117, 103>>,
   emoji |-> <<240, 376, 8216, 168, 226, 8364, 240, 376, 8217, 187>>],
  \* frontend
  [pattern |-> <<102, 114, 111, 110, 116, 101, 110, 100>>,
   emoji |-> <<240, 376, 8217, 187>>],
  \* backend
  [pattern |-> <<98, 97, 99, 107, 101, 110, 100>>,
   emoji |-> <<240, 376, 8217, 187>>],
  \* devops
  [pattern |-> <<100, 101, 118, 111, 112, 115>>,
   emoji |-> <<240, 376, 8217, 187>>],
  \* design
  [pattern |-> <<100, 101, 115, 105, 103, 110>>,
   emoji |-> <<240, 376, 381, 168>>],
  \* creative
  [pattern |-> <<99, 114, 101, 97, 116, 105, 118, 101>>,
   emoji |-> <<240, 376, 381, 168>>],
  \* ui
  [pattern |-> <<117, 105>>,
   emoji |-> <<240, 376, 381, 168>>],
  \* ux
  [pattern |-> <<117, 120>>,
   emoji |-> <<240, 376, 381, 168>>],
  \* writer
  [pattern |-> <<119, 114, 105, 116, 101, 114>>,
   emoji |-> <<226, 339, 239, 184>>],
  \* writing
  [pattern |-> <<119, 114, 105, 116, 105, 110, 103>>,
   emoji |-> <<226, 339, 239, 184>>],
  \* content
  [pattern |-> <<99, 111, 110, 116, 101, 110, 116>>,
   emoji |-> <<226, 339, 239, 184>>],
  \* analytic
  [pattern |-> <<97, 110, 97, 108, 121, 116, 105, 99>>,
   emoji |-> <<240, 376, 8220, 352>>],
  \* data
  [pattern |-> <<100, 97, 116, 97>>,
   emoji |-> <<240, 376, 8220, 352>>],
  \* metric
  [pattern |-> <<109, 101, 116, 114, 105, 99>>,
   emoji |-> <<240, 376, 8220, 352>>],
  \* statistics
  [pattern |-> <<115, 116, 97, 116, 105, 115, 116, 105, 99, 115>>,
   emoji |-> <<240, 376, 8220, 352>>],
  \* chat
  [pattern |-> <<99, 104, 97, 116>>,
   emoji |-> <<240, 376, 8217, 172>>],
  \* support
  [pattern |-> <<115, 117, 112, 112, 111, 114, 116>>,
   emoji |-> <<240, 376, 8217, 172>>],
  \* communication
  [pattern |-> <<99, 111, 109, 109, 117, 110, 105, 99, 97, 116, 105, 111, 110>>,
   emoji |-> <<240, 376, 8217, 172>>],
  \* customer
  [pattern |-> <<99, 117, 115, 116, 111, 109, 101, 114>>,
   emoji |-> <<240, 376, 8217, 172>>],
  \* teacher
  [pattern |-> <<116, 101, 97, 99, 104, 101, 114>>,
   emoji |-> <<240, 376, 8220, 353>>],
  \* education
  [pattern |-> <<101, 100, 117, 99, 97, 116, 105, 111, 110>>,
   emoji |-> <<240, 376, 8220, 353>>],
  \* learning
  [pattern |-> <<108, 101, 97, 114, 110, 105, 110, 103>>,
   emoji |-> <<240, 376, 8220, 353>>],
  \* tutorial
  [pattern |-> <<116, 117, 116, 111, 114, 105, 97, 108>>,
   emoji |-> <<240, 376, 8220, 353>>],
  \* finance
  [pattern |-> <<102, 105, 110, 97, 110, 99, 101>>,
   emoji |-> <<240, 376, 8217, 176>>],
  \* money
  [pattern |-> <<109, 111, 110, 101, 121>>,
   emoji |-> <<240, 376, 8217, 176>>],
  \* trading
  [pattern |-> <<116, 114, 97, 100, 105, 110, 103>>,
   emoji |-> <<240, 376, 8217, 176>>],
  \* science
  [pattern |-> <<115, 99, 105, 101, 110, 99, 101>>,
   emoji |-> <<240, 376, 8221, 172>>],
  \* research
  [pattern |-> <<114, 101, 115, 101, 97, 114, 99, 104>>,
   emoji |-> <<240, 376, 8221, 172>>],
  \* assistant
  [pattern |-> <<97, 115, 115, 105, 115, 116, 97, 110, 116>>,
   emoji |-> <<240, 376, 164, 8211>>],
  \* helper
  [pattern |-> <<104, 101, 108, 112, 101, 114>>,
   emoji |-> <<240, 376, 164, 8211>>],
  \* copilot
  [pattern |-> <<99, 111, 112, 105, 108, 111, 116>>,
   emoji |-> <<240, 376, 164, 8211>>],
  \* automation
  [pattern |-> <<97, 117, 116, 111, 109, 97, 116, 105, 111, 110>>,
   emoji |-> <<226, 353, 8482, 239, 184>>]
>>

FIX_DEFAULT_EMOJI == <<240, 376, 8221, 167>>

S_General == <<71, 101, 110, 101, 114, 97, 108>>
S_unknown == <<117, 110, 107, 110, 111, 119, 110>>
S_prompt_dash == <<112, 114, 111, 109, 112, 116, 45>>
S_placeholder == <<89, 111, 117, 114, 32, 112, 114, 111, 109, 112, 116, 32, 99, 111, 110, 116, 101, 110, 116, 32, 104, 101, 114, 101, 46>>
S_delim == <<DASH, DASH, DASH>>
S_description_key == <<100, 101, 115, 99, 114, 105, 112, 116, 105, 111, 110, 58>>
S_category_key == <<99, 97, 116, 101, 103, 111, 114, 121, 58>>
S_group_key == <<103, 114, 111, 117, 112, 58>>

\* the code-point ranges both fix.py and validate.py accept as symbols
emoji_ranges == {
  <<128512, 128591>>, <<127744, 128511>>, <<128640, 128767>>,
  <<127456, 127487>>, <<9728, 9983>>, <<9984, 10175>>,
  <<129280, 129535>>, <<129536, 129647>>, <<129648, 129791>>,
  <<8986, 9215>>, <<11088, 11093>>, <<8252, 12953>> }

InEmojiRanges(code) == \E r \in emoji_ranges : r[1] <= code /\ code <= r[2]

\* the state a run of fixes threads through: the record, the fix log, the
\* number of warnings, and whether an exception has ended the run
FixState(p) == [p |-> p, fixes |-> <<>>, warnings |-> 0, crashed |-> FALSE]

add_fix(st, field, action) ==
  [st EXCEPT !.fixes = Append(@, [field |-> field, action |-> action])]

SetField(st, f, val) == [st EXCEPT !.p = [@ EXCEPT ![f] = val]]

Raise(st) == [st EXCEPT !.crashed = TRUE]

\* fix_id that trusts an id that is already a string of digits
fix_id_keeps_digits(st, index) ==
  LET current_id == Get(st.p, "id", Null)
      expected_id == S(StrInt(index + 1))
  IN IF IsStr(current_id) /\ IsDigit(current_id.v)
     THEN st
     ELSE add_fix(SetField(st, "id", expected_id), "id", "changed")

fix_id(st, index) ==
  LET current_id == Get(st.p, "id", Null)
      expected_id == S(StrInt(index + 1))
  IN IF ~ PyEq(current_id, expected_id)
     THEN add_fix(SetField(st, "id", expected_id), "id", "changed")
     ELSE IF IsInt(current_id)
     THEN add_fix(SetField(st, "id", S(PyStr(current_id))), "id", "to_string")
     ELSE st

\* index just after the run of whitespace that starts at position j
RECURSIVE SpaceRunEnd(_, _)
SpaceRunEnd(s, j) ==
  IF j <= Len(s) /\ IsSpace(s[j]) THEN SpaceRunEnd(s, j + 1) ELSE j

\* index of the last character of the line that contains position j
RECURSIVE LineEnd(_, _)
LineEnd(s, j) ==
  IF j + 1 <= Len(s) /\ s[j + 1] # NL THEN LineEnd(s, j + 1) ELSE j

\* re.sub(r"[\s_]+", "-", s)
RECURSIVE SubSpaceRuns(_)
SubSpaceRuns(s) ==
  IF s = <<>> THEN <<>>
  ELSE IF IsSpace(Head(s)) \/ Head(s) = 95
       THEN IF Len(s) > 1 /\ (IsSpace(s[2]) \/ s[2] = 95)
            THEN SubSpaceRuns(Tail(s))
            ELSE <<DASH>> \o SubSpaceRuns(Tail(s))
       ELSE <<Head(s)>> \o SubSpaceRuns(Tail(s))

\* where re.search(r"^#\s+(.+)$", content, re.MULTILINE) can match: a "#"
\* at a line start, then k >= 1 whitespace characters, then a character
\* that is not a newline
TitleStops(s, i) ==
  { g \in (i + 2)..(SpaceRunEnd(s, i + 1)) : g <= Len(s) /\ s[g] # NL }

TitleStarts(s) ==
  { i \in 1..Len(s) : /\ i = 1 \/ s[i - 1] = NL
                      /\ s[i] = HASH
                      /\ TitleStops(s, i) # {} }

Max(set) == CHOOSE x \in set : \A y \in set : y <= x
Min(set) == CHOOSE x \in set : \A y \in set : x <= y

\* None (Null) when no heading matches, else the slug of the first heading
extract_name_from_content(content) ==
  IF TitleStarts(content) = {} THEN Null
  ELSE LET i == Min(TitleStarts(content))
           g == Max(TitleStops(content, i))
           title == Strip(SubSeq(content, g, LineEnd(content, g)))
       IN S(Strip(SubSpaceRuns(Lower(title))))

fix_name(st) ==
  LET name == Get(st.p, "name", S(<<>>))
      pid == Get(st.p, "id", S(S_unknown))
      prompt_content == Get(st.p, "prompt", S(<<>>))
  IN IF ~ Truthy(name) \/ ~ IsStr(name)
     THEN IF ~ IsStr(prompt_content)
          THEN Raise(st)
          ELSE LET new_name == extract_name_from_content(prompt_content.v)
               IN IF Truthy(new_name)
                  THEN add_fix(SetField(st, "name", new_name), "name", "extracted")
                  ELSE add_fix(SetField(st, "name", S(S_prompt_dash \o PyStr(pid))),
                               "name", "generated")
     ELSE st

fix_description(st) ==
  LET description == Get(st.p, "description", Null)
  IN IF description = Null
     THEN add_fix(SetField(st, "description", S(<<>>)), "description", "empty")
     ELSE IF ~ IsStr(description)
     THEN add_fix(SetField(st, "description", S(PyStr(description))),
                  "description", "to_string")
     ELSE st

\* ord(char) of one item of the iteration "for char in text": a code point
\* for a character of a str or a one-character str element of a list, -1
\* where ord() raises TypeError
OrdOf(text, i) ==
  IF text.t = "str" THEN text.v[i]
  ELSE IF text.v[i].t = "str" /\ Len(text.v[i].v) = 1 THEN text.v[i].v[1]
  ELSE -1

\* the loop "for char in text: if in a range: return True", as "true",
\* "false" or "raise"
RECURSIVE ScanRanges(_, _)
ScanRanges(text, i) ==
  IF i > Len(text.v) THEN "false"
  ELSE IF OrdOf(text, i) = -1 THEN "raise"
  ELSE IF InEmojiRanges(OrdOf(text, i)) THEN "true"
  ELSE ScanRanges(text, i + 1)

\* iterating or measuring a number raises TypeError
is_valid_emoji(text) ==
  IF ~ Truthy(text) THEN "false"
  ELSE IF text.t \notin {"str", "list"} THEN "raise"
  ELSE IF Len(text.v) > 4 THEN "false"
  ELSE ScanRanges(text, 1)

RECURSIVE FirstFix(_, _)
FirstFix(text, k) ==
  IF k > Len(EMOJI_FIXES) THEN FIX_DEFAULT_EMOJI
  ELSE IF Contains(text, EMOJI_FIXES[k].pattern) THEN EMOJI_FIXES[k].emoji
  ELSE FirstFix(text, k + 1)

fix_generate_emoji(description, name) ==
  FirstFix(Lower(PyStr(description) \o <<SP>> \o PyStr(name)), 1)

fix_emoji(st) ==
  LET emoji == Get(st.p, "emoji", S(<<>>))
      description == Get(st.p, "description", S(<<>>))
      name == Get(st.p, "name", S(<<>>))
      valid == is_valid_emoji(emoji)
  IN IF Truthy(emoji) /\ valid = "raise" THEN Raise(st)
     ELSE IF ~ Truthy(emoji) \/ valid = "false"
     THEN add_fix(SetField(st, "emoji", S(fix_generate_emoji(description, name))),
                  "emoji", "generated")
     ELSE st

\* the entries fix_group keeps: non-blank strings, stripped
RECURSIVE FilterGroup(_)
FilterGroup(g) ==
  IF g = <<>> THEN <<>>
  ELSE IF IsStr(Head(g)) /\ Strip(Head(g).v) # <<>>
       THEN <<S(Strip(Head(g).v))>> \o FilterGroup(Tail(g))
       ELSE FilterGroup(Tail(g))

\* the entries fix_group warns about: dropped and not None
GroupWarnings(g) ==
  Cardinality({ i \in 1..Len(g) :
                  /\ ~ (IsStr(g[i]) /\ Strip(g[i].v) # <<>>)
                  /\ g[i] # Null })

\* fix_group that replaces a blank string by the default group instead of
\* wrapping it
fix_group_blank_default(st) ==
  LET group == Get(st.p, "group", Null)
      general == L(<<S(S_General)>>)
  IN IF IsStr(group) /\ Strip(group.v) # <<>>
     THEN add_fix(SetField(st, "group", L(<<group>>)), "group", "wrapped")
     ELSE add_fix(SetField(st, "group", general), "group", "default")

fix_group(st) ==
  LET group == Get(st.p, "group", Null)
      general == L(<<S(S_General)>>)
  IN IF group = Null
     THEN add_fix(SetField(st, "group", general), "group", "default")
     ELSE IF IsStr(group)
     THEN add_fix(SetField(st, "group", L(<<group>>)), "group", "wrapped")
     ELSE IF ~ IsList(group)
     THEN add_fix(SetField(st, "group", general), "group", "not_list")
     ELSE IF Len(group.v) = 0
     THEN add_fix(SetField(st, "group", general), "group", "empty")
     ELSE LET fixed_group == FilterGroup(group.v)
              warned == [st EXCEPT !.warnings = @ + GroupWarnings(group.v)]
          IN IF Len(fixed_group) = 0
             THEN add_fix(SetField(warned, "group", general), "group", "replaced")
             ELSE IF Len(fixed_group) # Len(group.v)
             THEN add_fix(SetField(warned, "group", L(fixed_group)), "group", "filtered")
             ELSE warned

generate_minimal_frontmatter(name, description, group) ==
  LET category == IF Truthy(group) THEN group.v[1] ELSE S(S_General)
  IN S_delim \o <<NL>>
     \o S_description_key \o <<SP>> \o PyStr(description) \o <<NL>>
     \o S_category_key \o <<NL>>
     \o <<SP, SP, DASH, SP>> \o PyStr(category) \o <<NL>>
     \o S_delim

\* fix_prompt that replaces a prompt without a leading delimiter by the
\* generated minimal prompt
fix_prompt_discards(st) ==
  LET prompt_content == Get(st.p, "prompt", S(<<>>))
      name == Get(st.p, "name", S(<<>>))
      description == Get(st.p, "description", S(<<>>))
      group == Get(st.p, "group", L(<<S(S_General)>>))
      yaml_frontmatter == generate_minimal_frontmatter(name, description, group)
  IN IF ~ IsStr(prompt_content) /\ Truthy(prompt_content)
     THEN add_fix(SetField(st, "prompt", S(PyStr(prompt_content))), "prompt", "to_string")
     ELSE IF ~ Truthy(prompt_content) \/ ~ StartsWith(Strip(prompt_content.v), S_delim)
     THEN add_fix(SetField(st, "prompt",
                    S(yaml_frontmatter \o <<NL, NL, HASH, SP>> \o PyStr(name)
                      \o <<NL, NL>> \o S_placeholder)),
                  "prompt", "generated")
     ELSE st

fix_prompt(st) ==
  LET prompt_content == Get(st.p, "prompt", S(<<>>))
      name == Get(st.p, "name", S(<<>>))
      description == Get(st.p, "description", S(<<>>))
      group == Get(st.p, "group", L(<<S(S_General)>>))
      yaml_frontmatter == generate_minimal_frontmatter(name, description, group)
  IN IF ~ Truthy(prompt_content)
     THEN add_fix(SetField(st, "prompt",
                    S(yaml_frontmatter \o <<NL, NL, HASH, SP>> \o PyStr(name)
                      \o <<NL, NL>> \o S_placeholder)),
                  "prompt", "generated")
     ELSE IF ~ IsStr(prompt_content)
     THEN add_fix(SetField(st, "prompt", S(PyStr(prompt_content))), "prompt", "to_string")
     ELSE IF ~ StartsWith(Strip(prompt_content.v), S_delim)
     THEN add_fix(SetField(st, "prompt", S(yaml_frontmatter \o <<NL, NL>> \o prompt_content.v)),
                  "prompt", "frontmatter")
     ELSE st

\* f(st) unless an earlier fix has raised
Then(st, next) == IF st.crashed THEN st ELSE next

\* the six fixes with fix_name ahead of fix_id
fix_prompt_object_name_first(prompt, index) ==
  LET s1 == fix_name(FixState(prompt))
      s2 == Then(s1, fix_id(s1, index))
      s3 == Then(s2, fix_description(s2))
      s4 == Then(s3, fix_emoji(s3))
      s5 == Then(s4, fix_group(s4))
  IN Then(s5, fix_prompt(s5))

\* the six fixes in the order of the code, on the record at 0-based index
fix_prompt_object(prompt, index) ==
  LET s1 == fix_id(FixState(prompt), index)
      s2 == Then(s1, fix_name(s1))
      s3 == Then(s2, fix_description(s2))
      s4 == Then(s3, fix_emoji(s3))
      s5 == Then(s4, fix_group(s4))
  IN Then(s5, fix_prompt(s5))

\* ---------------------------------------------------------------------
\* validate.py: the Schema Validator
\* ---------------------------------------------------------------------
\* an issue: its level, the 1-based position of the record, the field and
\* which deviation it reports (the message text is not modelled)
Issue(level, pos, field, code) ==
  [level |-> level, pos |-> pos, field |-> field, code |-> code]

\* what a check leaves behind: the issues it appended and whether it raised
CheckState(issues) == [issues |-> issues, crashed |-> FALSE]

add_issue(cs, level, pos, field, code) ==
  [cs EXCEPT !.issues = Append(@, Issue(level, pos, field, code))]

required_fields == <<"id", "name", "description", "emoji", "group", "prompt">>

RECURSIVE RequiredOfRecord(_, _, _, _)
RequiredOfRecord(cs, prompt, pos, k) ==
  IF k > Len(required_fields) THEN cs
  ELSE RequiredOfRecord(
         IF prompt[required_fields[k]] = Absent
         THEN add_issue(cs, "error", pos, required_fields[k], "missing")
         ELSE cs,
         prompt, pos, k + 1)

RECURSIVE check_required_fields(_, _, _)
check_required_fields(cs, prompts, pos) ==
  IF pos > Len(prompts) THEN cs
  ELSE check_required_fields(RequiredOfRecord(cs, prompts[pos], pos, 1), prompts, pos + 1)

\* one type check of check_field_types
TypeCheck(cs, prompt, pos, field, ok) ==
  IF prompt[field] # Absent /\ ~ ok
  THEN add_issue(cs, "error", pos, field, "type")
  ELSE cs

TypesOfRecord(cs, prompt, pos) ==
  LET c1 == TypeCheck(cs, prompt, pos, "id", IsStr(prompt["id"]))
      c2 == TypeCheck(c1, prompt, pos, "name", IsStr(prompt["name"]))
      c3 == TypeCheck(c2, prompt, pos, "description", IsStr(prompt["description"]))
      c4 == TypeCheck(c3, prompt, pos, "emoji", IsStr(prompt["emoji"]))
      c5 == TypeCheck(c4, prompt, pos, "group", IsList(prompt["group"]))
  IN TypeCheck(c5, prompt, pos, "prompt", IsStr(prompt["prompt"]))

RECURSIVE check_field_types(_, _, _)
check_field_types(cs, prompts, pos) ==
  IF pos > Len(prompts) THEN cs
  ELSE check_field_types(TypesOfRecord(cs, prompts[pos], pos), prompts, pos + 1)

\* pid in id_set, with Python's equality; a list cannot be hashed
InIdSet(pid, id_set) == \E x \in id_set : PyEq(x, pid)

\* check_id_sequence that adds the id to id_set before it looks it up
RECURSIVE check_id_sequence_add_first(_, _, _, _)
check_id_sequence_add_first(cs, prompts, pos, id_set) ==
  IF pos > Len(prompts) THEN cs
  ELSE LET pid == Get(prompts[pos], "id", Null)
           expected_id == StrInt(pos)
       IN IF pid = Null
          THEN check_id_sequence_add_first(cs, prompts, pos + 1, id_set)
          ELSE IF IsStr(pid) /\ ~ IsDigit(pid.v)
          THEN check_id_sequence_add_first(add_issue(cs, "error", pos, "id", "not_numeric"),
                                           prompts, pos + 1, id_set)
          ELSE IF IsList(pid)
          THEN [cs EXCEPT !.crashed = TRUE]
          ELSE LET c1 == IF InIdSet(pid, id_set \cup {pid})
                         THEN add_issue(cs, "error", pos, "id", "duplicate")
                         ELSE cs
                   c2 == IF IsStr(pid) /\ pid.v # expected_id
                         THEN add_issue(c1, "warning", pos, "id", "not_sequential")
                         ELSE c1
               IN check_id_sequence_add_first(c2, prompts, pos + 1, id_set \cup {pid})

RECURSIVE check_id_sequence(_, _, _, _)
check_id_sequence(cs, prompts, pos, id_set) ==
  IF pos > Len(prompts) THEN cs
  ELSE LET pid == Get(prompts[pos], "id", Null)
           expected_id == StrInt(pos)
       IN IF pid = Null
          THEN check_id_sequence(cs, prompts, pos + 1, id_set)
          ELSE IF IsStr(pid) /\ ~ IsDigit(pid.v)
          THEN check_id_sequence(add_issue(cs, "error", pos, "id", "not_numeric"),
                                 prompts, pos + 1, id_set)
          ELSE IF IsList(pid)
          THEN [cs EXCEPT !.crashed = TRUE]
          ELSE LET c1 == IF InIdSet(pid, id_set)
                         THEN add_issue(cs, "error", pos, "id", "duplicate")
                         ELSE cs
                   c2 == IF IsStr(pid) /\ pid.v # expected_id
                         THEN add_issue(c1, "warning", pos, "id", "not_sequential")
                         ELSE c1
               IN check_id_sequence(c2, prompts, pos + 1, id_set \cup {pid})

\* the validator's range scan has no length limit; iterating a number raises
looks_like_emoji(text) ==
  IF text.t \notin {"str", "list"} THEN "raise" ELSE ScanRanges(text, 1)

\* emoji_suggestions in insertion order: symbol and its keywords in order
emoji_suggestions == <<
  \* pm, product manager, business, strategy
  [emoji |-> <<128104, 8205, 128188>>,
   keywords |-> <<<<112, 109>>, <<112, 114, 111, 100, 117, 99, 116, 32, 109, 97, 110, 97, 103, 101, 114>>, <<98, 117, 115, 105, 110, 101, 115, 115>>, <<115, 116, 114, 97, 116, 101, 103, 121>>>>],
  \* developer, engineer, coding, programming, software
  [emoji |-> <<128104, 8205, 128187>>,
   keywords |-> <<<<100, 101, 118, 101, 108, 111, 112, 101, 114>>, <<101, 110, 103, 105, 110, 101, 101, 114>>, <<99, 111, 100, 105, 110, 103>>, <<112, 114, 111, 103, 114, 97, 109, 109, 105, 110, 103>>, <<115, 111, 102, 116, 119, 97, 114, 101>>>>],
  \* writer, writing, copy, content
  [emoji |-> <<9997, 65039>>,
   keywords |-> <<<<119, 114, 105, 116, 101, 114>>, <<119, 114, 105, 116, 105, 110, 103>>, <<99, 111, 112, 121>>, <<99, 111, 110, 116, 101, 110, 116>>>>],
  \* design, creative, art, ui, ux
  [emoji |-> <<127912>>,
   keywords |-> <<<<100, 101, 115, 105, 103, 110>>, <<99, 114, 101, 97, 116, 105, 118, 101>>, <<97, 114, 116>>, <<117, 105>>, <<117, 120>>>>],
  \* analytic, data, metric, analysis
  [emoji |-> <<128202>>,
   keywords |-> <<<<97, 110, 97, 108, 121, 116, 105, 99>>, <<100, 97, 116, 97>>, <<109, 101, 116, 114, 105, 99>>, <<97, 110, 97, 108, 121, 115, 105, 115>>>>],
  \* assistant, helper, copilot, ai
  [emoji |-> <<129302>>,
   keywords |-> <<<<97, 115, 115, 105, 115, 116, 97, 110, 116>>, <<104, 101, 108, 112, 101, 114>>, <<99, 111, 112, 105, 108, 111, 116>>, <<97, 105>>>>],
  \* chat, support, communication
  [emoji |-> <<128172>>,
   keywords |-> <<<<99, 104, 97, 116>>, <<115, 117, 112, 112, 111, 114, 116>>, <<99, 111, 109, 109, 117, 110, 105, 99, 97, 116, 105, 111, 110>>>>],
  \* teacher, education, learning
  [emoji |-> <<128218>>,
   keywords |-> <<<<116, 101, 97, 99, 104, 101, 114>>, <<101, 100, 117, 99, 97, 116, 105, 111, 110>>, <<108, 101, 97, 114, 110, 105, 110, 103>>>>],
  \* finance, money, trading
  [emoji |-> <<128176>>,
   keywords |-> <<<<102, 105, 110, 97, 110, 99, 101>>, <<109, 111, 110, 101, 121>>, <<116, 114, 97, 100, 105, 110, 103>>>>],
  \* science, research, lab
  [emoji |-> <<128300>>,
   keywords |-> <<<<115, 99, 105, 101, 110, 99, 101>>, <<114, 101, 115, 101, 97, 114, 99, 104>>, <<108, 97, 98>>>>]
>>

RECURSIVE FirstSuggestion(_, _, _)
FirstSuggestion(desc_lower, current, k) ==
  IF k > Len(emoji_suggestions) THEN Null
  ELSE IF /\ S(emoji_suggestions[k].emoji) # current
          /\ \E j \in 1..Len(emoji_suggestions[k].keywords) :
               Contains(desc_lower, emoji_suggestions[k].keywords[j])
       THEN S(emoji_suggestions[k].emoji)
       ELSE FirstSuggestion(desc_lower, current, k + 1)

\* only called with a str description: desc.lower() raises on anything else
suggest_better_emoji(desc, current) == FirstSuggestion(Lower(desc), current, 1)

EmojiOfRecord(cs, prompt, pos, verbose) ==
  LET emoji == Get(prompt, "emoji", S(<<>>))
      desc == Get(prompt, "description", S(<<>>))
      looks == looks_like_emoji(emoji)
  IN IF ~ Truthy(emoji) THEN add_issue(cs, "error", pos, "emoji", "missing")
     ELSE IF looks = "raise" THEN [cs EXCEPT !.crashed = TRUE]
     ELSE LET c1 == IF looks = "false"
                    THEN add_issue(cs, "warning", pos, "emoji", "not_emoji")
                    ELSE cs
          IN IF verbose /\ Truthy(desc)
             THEN IF ~ IsStr(desc) THEN [c1 EXCEPT !.crashed = TRUE]
                  ELSE LET suggested == suggest_better_emoji(desc.v, emoji)
                       IN IF Truthy(suggested) /\ suggested # emoji
                          THEN add_issue(c1, "info", pos, "emoji", "suggestion")
                          ELSE c1
             ELSE c1

RECURSIVE check_emoji_validity(_, _, _, _)
check_emoji_validity(cs, prompts, pos, verbose) ==
  IF pos > Len(prompts) \/ cs.crashed THEN cs
  ELSE check_emoji_validity(EmojiOfRecord(cs, prompts[pos], pos, verbose),
                            prompts, pos + 1, verbose)

RECURSIVE GroupEntries(_, _, _, _)
GroupEntries(cs, group, pos, i) ==
  IF i > Len(group) THEN cs
  ELSE GroupEntries(
         IF ~ IsStr(group[i]) THEN add_issue(cs, "warning", pos, "group", "entry_type")
         ELSE IF Strip(group[i].v) = <<>>
         THEN add_issue(cs, "warning", pos, "group", "entry_blank")
         ELSE cs,
         group, pos, i + 1)

GroupOfRecord(cs, prompt, pos) ==
  LET group == Get(prompt, "group", Null)
  IN IF group = Null THEN cs
     ELSE IF IsStr(group) THEN add_issue(cs, "error", pos, "group", "is_string")
     ELSE IF IsList(group)
     THEN GroupEntries(IF Len(group.v) = 0
                       THEN add_issue(cs, "error", pos, "group", "empty")
                       ELSE cs,
                       group.v, pos, 1)
     ELSE cs

RECURSIVE check_group_format(_, _, _)
check_group_format(cs, prompts, pos) ==
  IF pos > Len(prompts) THEN cs
  ELSE check_group_format(GroupOfRecord(cs, prompts[pos], pos), prompts, pos + 1)

\* the positions e of the "\n" that ends the opening delimiter line
\* "---\s*\n" of a text that starts with "---"
OpenEnds(s) ==
  IF StartsWith(s, S_delim)
  THEN { e \in 4..(SpaceRunEnd(s, 4) - 1) : s[e] = NL }
  ELSE {}

\* the positions c >= lo at which "\n---" occurs
Closes(s, lo) == { c \in lo..Len(s) : MatchAt(s, <<NL, DASH, DASH, DASH>>, c) }

\* re.match(r"^---\s*\n(.*?)\n---", s, re.DOTALL): the greedy \s* takes the
\* last possible "\n", the lazy group ends at the first "\n---" after it
HeaderOpens(s) == { e \in OpenEnds(s) : Closes(s, e + 1) # {} }
HeaderMatches(s) == HeaderOpens(s) # {}
HeaderYaml(s) ==
  LET e == Max(HeaderOpens(s))
      c == Min(Closes(s, e + 1))
  IN SubSeq(s, e + 1, c - 1)

PromptOfRecord(cs, prompt, pos) ==
  LET prompt_content == Get(prompt, "prompt", S(<<>>))
  IN IF ~ Truthy(prompt_content)
     THEN add_issue(cs, "error", pos, "prompt", "empty")
     ELSE IF ~ IsStr(prompt_content) THEN [cs EXCEPT !.crashed = TRUE]
     ELSE LET text == prompt_content.v
              c1 == IF ~ StartsWith(Strip(text), S_delim)
                    THEN add_issue(cs, "warning", pos, "prompt", "no_frontmatter")
                    ELSE cs
          IN IF Contains(text, S_delim) /\ HeaderMatches(text)
             THEN LET yaml_text == HeaderYaml(text)
                      c2 == IF ~ Contains(yaml_text, S_description_key)
                            THEN add_issue(c1, "info", pos, "prompt", "no_description")
                            ELSE c1
                  IN IF ~ Contains(yaml_text, S_category_key)
                        /\ ~ Contains(yaml_text, S_group_key)
                     THEN add_issue(c2, "info", pos, "prompt", "no_category")
                     ELSE c2
             ELSE c1

RECURSIVE check_prompt_content(_, _, _)
check_prompt_content(cs, prompts, pos) ==
  IF pos > Len(prompts) \/ cs.crashed THEN cs
  ELSE check_prompt_content(PromptOfRecord(cs, prompts[pos], pos), prompts, pos + 1)

\* the six checks in the order validate_file runs them
RunCheck(k, cs, prompts, verbose) ==
  CASE k = 1 -> check_required_fields(cs, prompts, 1)
    [] k = 2 -> check_field_types(cs, prompts, 1)
    [] k = 3 -> check_id_sequence(cs, prompts, 1, {})
    [] k = 4 -> check_emoji_validity(cs, prompts, 1, verbose)
    [] k = 5 -> check_group_format(cs, prompts, 1)
    [] OTHER -> check_prompt_content(cs, prompts, 1)

NumChecks == 6

\* ---------------------------------------------------------------------
\* Catalogs the tools are run on
\* ---------------------------------------------------------------------
Rec(id, name, description, emoji, group, prompt) ==
  [id |-> id, name |-> name, description |-> description,
   emoji |-> emoji, group |-> group, prompt |-> prompt]

T_a == <<97>>
T_b == <<98>>
T_x == <<120>>
T_startup == <<115, 116, 97, 114, 116, 117, 112>>
T_Finance == <<70, 105, 110, 97, 110, 99, 101>>
T_hello == <<104, 101, 108, 108, 111>>
\* "# My Title\nhi"
T_titled == <<35, 32, 77, 121, 32, 84, 105, 116, 108, 101, 10, 104, 105>>
\* U+1F527 wrench and U+26A1 high voltage
T_wrench == <<128295>>
T_zap == <<9889>>
\* the family emoji: U+1F468 U+1F469 U+1F467 U+1F466 joined by U+200D
T_family == <<128104, 8205, 128105, 8205, 128103, 8205, 128102>>

\* the records a catalog is drawn from: well-formed ones, the record of the
\* specification's repair scenario, an empty object, and records with a
\* missing, null, wrong-typed, empty or blank value in each field
RecordPool == {
  Rec(S(<<49>>), S(T_a), S(<<>>), S(T_wrench), L(<<S(T_x)>>), S(S_delim)),
  Rec(S(<<51>>), S(T_b), S(T_startup), S(T_wrench), L(<<S(T_x)>>), S(S_delim)),
  Rec(I(5), S(<<>>), Null, S(<<88>>), S(T_Finance), S(<<>>)),
  Rec(Absent, Absent, Absent, Absent, Absent, Absent),
  Rec(S(T_x), S(T_a), S(T_startup), L(<<S(T_zap)>>), S(<<>>), I(5)),
  Rec(S(<<49>>), S(T_a), S(<<>>), I(5), L(<<S(T_x)>>), S(S_delim)),
  Rec(I(1), Absent, S(T_startup), S(<<>>), L(<<S(T_x), Null, S(<<SP>>)>>), S(T_titled)),
  Rec(S(<<51>>), S(<<>>), S(<<>>), S(T_wrench), L(<<>>), Null),
  Rec(L(<<I(1)>>), S(T_a), S(<<>>), S(T_wrench), L(<<S(T_x)>>), S(S_delim)),
  Rec(S(<<50>>), S(T_b), I(5), S(T_wrench), I(7), S(T_hello)) }

\* a catalog file: a JSON array of records, a JSON document whose root is
\* not an array, or a file that is not JSON
ArrayFile(items) == [kind |-> "array", items |-> items]
ObjectFile == [kind |-> "object", items |-> <<>>]
InvalidFile == [kind |-> "invalid", items |-> <<>>]
NoFile == [kind |-> "none", items |-> <<>>]

Catalogs ==
  {ObjectFile, InvalidFile}
    \cup { ArrayFile(items) : items \in UNION { [1..n -> RecordPool] : n \in 0..MaxRecords } }

VARIABLES
  disk,           \* the catalog file json_file
  out_file,       \* the file at a separate output path
  pc,             \* "idle", "fix", "fixed", "validate", "validated", "failed", "crashed"
  prompts,        \* the list the running tool has loaded
  cursor,         \* fix_file: 0-based index of the next record to fix
  fixes_applied,  \* FixResult.fixes_applied
  fix_warnings,   \* number of entries of FixResult.warnings
  dry_run,        \* PromptFixer.dry_run
  output_other,   \* whether fix_file was given an output_file of its own
  runs,           \* runs of fix_file that have rewritten json_file
  before,         \* the list as fix_file loaded it
  was_repaired,   \* whether that list was itself written by fix_file
  repaired,       \* whether disk holds a list written by fix_file
  issues,         \* PromptValidator.issues
  checks_done,    \* validate_file: number of checks completed
  verbose,        \* PromptValidator.verbose
  ret,            \* what fix_file / validate_file returned: "none", "true", "false"
  tool,           \* the command that runs or ran last: "none", "fix", "validate", "compile"
  exit_code       \* the exit status of its process: "none", "zero", "nonzero"

catVars == <<disk, out_file, pc, prompts, cursor, fixes_applied, fix_warnings,
             dry_run, output_other, runs, before, was_repaired, repaired,
             issues, checks_done, verbose, ret, tool, exit_code>>

fixVars == <<cursor, fixes_applied, fix_warnings, dry_run, output_other, before, was_repaired>>
valVars == <<issues, checks_done, verbose>>

CatInit ==
  /\ disk \in Catalogs
  /\ out_file = NoFile
  /\ pc = "idle"
  /\ prompts = <<>>
  /\ cursor = 0
  /\ fixes_applied = <<>>
  /\ fix_warnings = 0
  /\ dry_run = FALSE
  /\ output_other = FALSE
  /\ runs = 0
  /\ before = <<>>
  /\ was_repaired = FALSE
  /\ repaired = FALSE
  /\ issues = <<>>
  /\ checks_done = 0
  /\ verbose = FALSE
  /\ ret = "none"
  /\ tool = "none"
  /\ exit_code = "none"

\* a tool is started when no other is running; each run is a new process
Idle == pc \in {"idle", "fixed", "validated", "failed", "crashed"}

\* fix_file up to the loop: read and parse json_file, reject a root that is
\* not a list, return at once on an empty list; main exits with status 1
\* when fix_file returns False
FixLoad ==
  /\ Idle
  /\ runs < MaxRuns
  /\ \E d \in BOOLEAN, o \in BOOLEAN :
       /\ dry_run' = d
       /\ output_other' = o
  /\ cursor' = 0
  /\ fixes_applied' = <<>>
  /\ fix_warnings' = 0
  /\ issues' = <<>>
  /\ checks_done' = 0
  /\ verbose' = FALSE
  /\ tool' = "fix"
  /\ IF disk.kind # "array"
     THEN /\ pc' = "failed"
          /\ ret' = "false"
          /\ exit_code' = "nonzero"
          /\ prompts' = <<>>
          /\ UNCHANGED <<before, was_repaired, runs>>
     ELSE /\ prompts' = disk.items
          /\ before' = disk.items
          /\ was_repaired' = repaired
          /\ IF Len(disk.items) = 0
             THEN pc' = "fixed" /\ ret' = "true" /\ exit_code' = "zero"
             ELSE pc' = "fix" /\ ret' = "none" /\ exit_code' = "none"
          /\ UNCHANGED runs
  /\ UNCHANGED <<disk, out_file, repaired>>

\* one iteration of the loop of fix_file: fix_prompt_object on the next
\* record; an exception ends the process with the file untouched
FixNext ==
  /\ pc = "fix"
  /\ cursor < Len(prompts)
  /\ LET r == fix_prompt_object(prompts[cursor + 1], cursor)
     IN /\ prompts' = [prompts EXCEPT ![cursor + 1] = r.p]
        /\ fixes_applied' = fixes_applied \o r.fixes
        /\ fix_warnings' = fix_warnings + r.warnings
        /\ IF r.crashed
           THEN pc' = "crashed" /\ cursor' = cursor /\ exit_code' = "nonzero"
           ELSE pc' = pc /\ cursor' = cursor + 1 /\ exit_code' = exit_code
  /\ UNCHANGED <<disk, out_file, dry_run, output_other, runs, before,
                 was_repaired, repaired, ret, tool>>
  /\ UNCHANGED valVars

\* the end of fix_file that writes the list also when dry_run is set
FixWrite_ignores_dry_run ==
  /\ pc = "fix"
  /\ cursor = Len(prompts)
  /\ IF output_other
     THEN out_file' = ArrayFile(prompts) /\ UNCHANGED <<disk, repaired, runs>>
     ELSE /\ disk' = ArrayFile(prompts)
          /\ repaired' = TRUE
          /\ runs' = runs + 1
          /\ UNCHANGED out_file
  /\ pc' = "fixed"
  /\ ret' = "true"
  /\ exit_code' = "zero"
  /\ UNCHANGED <<prompts, cursor, fixes_applied, fix_warnings, dry_run,
                 output_other, before, was_repaired, tool>>
  /\ UNCHANGED valVars

\* the end of fix_file: write the list unless dry_run, return True; main
\* then exits with status 0, as nothing ever fills FixResult.errors
FixWrite ==
  /\ pc = "fix"
  /\ cursor = Len(prompts)
  /\ IF dry_run
     THEN UNCHANGED <<disk, out_file, repaired, runs>>
     ELSE IF output_other
     THEN out_file' = ArrayFile(prompts) /\ UNCHANGED <<disk, repaired, runs>>
     ELSE /\ disk' = ArrayFile(prompts)
          /\ repaired' = TRUE
          /\ runs' = runs + 1
          /\ UNCHANGED out_file
  /\ pc' = "fixed"
  /\ ret' = "true"
  /\ exit_code' = "zero"
  /\ UNCHANGED <<prompts, cursor, fixes_applied, fix_warnings, dry_run,
                 output_other, before, was_repaired, tool>>
  /\ UNCHANGED valVars

\* validate_file up to the checks: read and parse, reject a root that is
\* not a list, return at once on an empty list; main does not read what
\* validate_file returns and exits by the number of errors of the report
ValidateLoad ==
  /\ Idle
  /\ verbose' \in BOOLEAN
  /\ issues' = <<>>
  /\ checks_done' = 0
  /\ cursor' = 0
  /\ fixes_applied' = <<>>
  /\ fix_warnings' = 0
  /\ tool' = "validate"
  /\ IF disk.kind # "array"
     THEN pc' = "failed" /\ ret' = "false" /\ prompts' = <<>> /\ exit_code' = "zero"
     ELSE /\ prompts' = disk.items
          /\ IF Len(disk.items) = 0
             THEN pc' = "validated" /\ ret' = "true" /\ exit_code' = "zero"
             ELSE pc' = "validate" /\ ret' = "none" /\ exit_code' = "none"
  /\ dry_run' = FALSE
  /\ output_other' = FALSE
  /\ before' = <<>>
  /\ was_repaired' = FALSE
  /\ UNCHANGED <<disk, out_file, runs, repaired>>

\* the next of the six checks; an exception ends the process
ValidateCheck ==
  /\ pc = "validate"
  /\ checks_done < NumChecks
  /\ LET cs == RunCheck(checks_done + 1, CheckState(issues), prompts, verbose)
     IN /\ issues' = cs.issues
        /\ IF cs.crashed
           THEN pc' = "crashed" /\ checks_done' = checks_done /\ exit_code' = "nonzero"
           ELSE pc' = pc /\ checks_done' = checks_done + 1 /\ exit_code' = exit_code
  /\ UNCHANGED <<disk, out_file, prompts, runs, repaired, ret, verbose, tool>>
  /\ UNCHANGED fixVars

\* the end of validate_file: return True; main exits with status 1 when
\* the report counts an error
ValidateReturn ==
  /\ pc = "validate"
  /\ checks_done = NumChecks
  /\ pc' = "validated"
  /\ ret' = "true"
  /\ exit_code' = IF \E i \in 1..Len(issues) : issues[i].level = "error"
                  THEN "nonzero" ELSE "zero"
  /\ UNCHANGED <<disk, out_file, prompts, runs, repaired, tool>>
  /\ UNCHANGED fixVars
  /\ UNCHANGED valVars

CatNext ==
  \/ FixLoad
  \/ FixNext
  \/ FixWrite
  \/ ValidateLoad
  \/ ValidateCheck
  \/ ValidateReturn

\* ---------------------------------------------------------------------
\* compile.py: Frontmatter Parser
\* ---------------------------------------------------------------------
\* a Python dict with str keys: a function from the keys present
EmptyDict == [k \in {} |-> Null]
DictSet(d, k, val) == [x \in (DOMAIN d) \cup {k} |-> IF x = k THEN val ELSE d[x]]
DictGet(d, k, default) == IF k \in DOMAIN d THEN d[k] ELSE default

DQUOTE == 34
SQUOTE == 39
S_true == <<116, 114, 117, 101>>
S_false == <<102, 97, 108, 115, 101>>

HasChar(s, c) == \E i \in 1..Len(s) : s[i] = c
FirstIndex(s, c) == Min({ i \in 1..Len(s) : s[i] = c })

\* s.split(c, 1)[0] and s.split(c, 1)[1] of a str that contains c
BeforeFirst(s, c) == SubSeq(s, 1, FirstIndex(s, c) - 1)
AfterFirst(s, c) == SubSeq(s, FirstIndex(s, c) + 1, Len(s))

\* s.strip(c) for one character c
RECURSIVE LStripChar(_, _)
LStripChar(s, c) ==
  IF s # <<>> /\ Head(s) = c THEN LStripChar(Tail(s), c) ELSE s
RECURSIVE RStripChar(_, _)
RStripChar(s, c) ==
  IF s # <<>> /\ s[Len(s)] = c THEN RStripChar(SubSeq(s, 1, Len(s) - 1), c) ELSE s
StripChar(s, c) == RStripChar(LStripChar(s, c), c)

\* int(s) of a str for which isdigit() holds: the decimal digits 0-9 and
\* the Arabic-Indic digits convert, a superscript digit raises ValueError
DecimalOf(c) == IF c \in 48..57 THEN c - 48 ELSE IF c \in 1632..1641 THEN c - 1632 ELSE -1
IntRaises(s) == \E i \in 1..Len(s) : DecimalOf(s[i]) = -1
RECURSIVE IntValue(_)
IntValue(s) ==
  IF s = <<>> THEN 0 ELSE 10 * IntValue(SubSeq(s, 1, Len(s) - 1)) + DecimalOf(s[Len(s)])

\* the value the first pass stores for a non-empty trimmed scalar
ScalarValue(value) ==
  IF Head(value) = DQUOTE /\ value[Len(value)] = DQUOTE
  THEN S(SubSeq(value, 2, Len(value) - 1))
  ELSE IF Head(value) = SQUOTE /\ value[Len(value)] = SQUOTE
  THEN S(SubSeq(value, 2, Len(value) - 1))
  ELSE IF Lower(value) = S_true THEN B(TRUE)
  ELSE IF Lower(value) = S_false THEN B(FALSE)
  ELSE IF IsDigit(value) THEN I(IntValue(value))
  ELSE IF HasChar(value, HASH) THEN S(Strip(BeforeFirst(value, HASH)))
  ELSE S(value)

ScalarRaises(value) ==
  /\ ~ (Head(value) = DQUOTE /\ value[Len(value)] = DQUOTE)
  /\ ~ (Head(value) = SQUOTE /\ value[Len(value)] = SQUOTE)
  /\ Lower(value) \notin {S_true, S_false}
  /\ IsDigit(value)
  /\ IntRaises(value)

\* first loop of simple_yaml_parse: scalar assignments
RECURSIVE ScalarPass(_, _, _)
ScalarPass(lines, k, acc) ==
  IF k > Len(lines) \/ acc.raised THEN acc
  ELSE LET line == lines[k]
           stripped == Strip(line)
       IN IF stripped = <<>> \/ Head(stripped) = HASH
          THEN ScalarPass(lines, k + 1, acc)
          ELSE IF HasChar(line, COLON)
          THEN LET key == Strip(BeforeFirst(line, COLON))
                   value == Strip(AfterFirst(line, COLON))
               IN IF value = <<>> THEN ScalarPass(lines, k + 1, acc)
                  ELSE IF ScalarRaises(value)
                  THEN [acc EXCEPT !.raised = TRUE]
                  ELSE ScalarPass(lines, k + 1,
                         [acc EXCEPT !.d = DictSet(@, key, ScalarValue(value))])
          ELSE ScalarPass(lines, k + 1, acc)

\* stripped[2:].strip().strip('"').strip("'")
ListItem(stripped) ==
  StripChar(StripChar(Strip(SubSeq(stripped, 3, Len(stripped))), DQUOTE), SQUOTE)

\* second loop of simple_yaml_parse: current_key is Null until a top-level
\* key has been seen; an unset key holds Null
RECURSIVE ListPass(_, _, _, _)
ListPass(lines, k, current_key, rwl) ==
  IF k > Len(lines) THEN rwl
  ELSE LET line == lines[k]
           stripped == Strip(line)
           has_key == current_key # Null /\ current_key.v # <<>>
       IN IF HasChar(line, COLON) /\ ~ StartsWith(line, <<SP>>)
          THEN LET key == Strip(BeforeFirst(line, COLON))
               IN ListPass(lines, k + 1, S(key), DictSet(rwl, key, Null))
          ELSE IF has_key /\ StartsWith(stripped, <<DASH, SP>>)
          THEN LET value == S(ListItem(stripped))
                   cur == rwl[current_key.v]
               IN ListPass(lines, k + 1, current_key,
                    IF cur = Null THEN DictSet(rwl, current_key.v, L(<<value>>))
                    ELSE IF IsList(cur)
                    THEN DictSet(rwl, current_key.v, L(Append(cur.v, value)))
                    ELSE rwl)
          ELSE IF has_key /\ rwl[current_key.v] = Null /\ HasChar(line, COLON)
          THEN ListPass(lines, k + 1, current_key,
                 DictSet(rwl, current_key.v,
                   S(StripChar(StripChar(Strip(AfterFirst(line, COLON)), DQUOTE), SQUOTE))))
          ELSE ListPass(lines, k + 1, current_key, rwl)

\* the merge: every key the list-aware pass gave a value wins
MergeDicts(result, rwl) ==
  [k \in (DOMAIN result) \cup { x \in DOMAIN rwl : rwl[x] # Null } |->
     IF k \in DOMAIN rwl /\ rwl[k] # Null THEN rwl[k] ELSE result[k]]

\* [raised, d]: the mapping, or that the parse raised an exception
simple_yaml_parse(text) ==
  LET lines == SplitLines(text)
      first == ScalarPass(lines, 1, [raised |-> FALSE, d |-> EmptyDict])
  IN IF first.raised THEN first
     ELSE [raised |-> FALSE, d |-> MergeDicts(first.d, ListPass(lines, 1, Null, EmptyDict))]

\* re.match(r"^---\s*\n(.*?)\n---\s*\n(.*)$", content, re.DOTALL): a closing
\* "\n---" at c counts when a "\n" lies in the whitespace that follows it
CloseTails(s, c) == { b \in (c + 4)..(SpaceRunEnd(s, c + 4) - 1) : s[b] = NL }
FullCloses(s, lo) == { c \in Closes(s, lo) : CloseTails(s, c) # {} }
FrontOpens(s) == { e \in OpenEnds(s) : FullCloses(s, e + 1) # {} }

\* the greedy \s* of the opening line takes the last "\n" that still lets
\* the rest match, the lazy group the first closing line, the greedy \s* of
\* the closing line again the last "\n"
FrontmatterMatch(content) ==
  LET e == Max(FrontOpens(content))
      c == Min(FullCloses(content, e + 1))
      b == Max(CloseTails(content, c))
  IN [yaml_text |-> SubSeq(content, e + 1, c - 1),
      body |-> SubSeq(content, b + 1, Len(content))]

\* parse_yaml_frontmatter that strips the text it returns on every path
parse_yaml_frontmatter_strips(content) ==
  IF FrontOpens(content) = {}
  THEN [frontmatter |-> EmptyDict, full_content |-> Strip(content)]
  ELSE LET m == FrontmatterMatch(content)
           parsed == simple_yaml_parse(m.yaml_text)
       IN IF parsed.raised
          THEN [frontmatter |-> EmptyDict, full_content |-> Strip(content)]
          ELSE [frontmatter |-> parsed.d,
                full_content |-> Strip(S_delim \o <<NL>> \o m.yaml_text \o <<NL>>
                                       \o S_delim \o <<NL, NL>> \o m.body)]

\* [frontmatter, full_content]
parse_yaml_frontmatter(content) ==
  IF FrontOpens(content) = {}
  THEN [frontmatter |-> EmptyDict, full_content |-> content]
  ELSE LET m == FrontmatterMatch(content)
           parsed == simple_yaml_parse(m.yaml_text)
       IN IF parsed.raised
          THEN [frontmatter |-> EmptyDict, full_content |-> content]
          ELSE [frontmatter |-> parsed.d,
                full_content |-> Strip(S_delim \o <<NL>> \o m.yaml_text \o <<NL>>
                                       \o S_delim \o <<NL, NL>> \o m.body)]

\* ---------------------------------------------------------------------
\* compile.py: Semantic Classifier and Record Normalizer
\* ---------------------------------------------------------------------
\* EMOJI_PATTERNS in insertion order.  Each rule lists the alternatives of
\* its regular expression: a literal, or two literals around a gap that is
\* any run of whitespace ("ws*") or exactly one whitespace character ("ws1")
EMOJI_PATTERNS == <<
  \* (product\s*manager|pm|business|strategy|roadmap|pric(?:ing|e)|market(?:ing)?)
  [alts |-> <<
     [parts |-> <<<<112, 114, 111, 100, 117, 99, 116>>, <<109, 97, 110, 97, 103, 101, 114>>>>, gap |-> "ws*"],
     [parts |-> <<<<112, 109>>>>, gap |-> "none"],
     [parts |-> <<<<98, 117, 115, 105, 110, 101, 115, 115>>>>, gap |-> "none"],
     [parts |-> <<<<115, 116, 114, 97, 116, 101, 103, 121>>>>, gap |-> "none"],
     [parts |-> <<<<114, 111, 97, 100, 109, 97, 112>>>>, gap |-> "none"],
     [parts |-> <<<<112, 114, 105, 99, 105, 110, 103>>>>, gap |-> "none"],
     [parts |-> <<<<112, 114, 105, 99, 101>>>>, gap |-> "none"],
     [parts |-> <<<<109, 97, 114, 107, 101, 116>>>>, gap |-> "none"],
     [parts |-> <<<<109, 97, 114, 107, 101, 116, 105, 110, 103>>>>, gap |-> "none"]>>,
   emoji |-> <<128104, 8205, 128188>>],
  \* (startup|founder|entrepreneur|ceo|cto|leadership)
  [alts |-> <<
     [parts |-> <<<<115, 116, 97, 114, 116, 117, 112>>>>, gap |-> "none"],
     [parts |-> <<<<102, 111, 117, 110, 100, 101, 114>>>>, gap |-> "none"],
     [parts |-> <<<<101, 110, 116, 114, 101, 112, 114, 101, 110, 101, 117, 114>>>>, gap |-> "none"],
     [parts |-> <<<<99, 101, 111>>>>, gap |-> "none"],
     [parts |-> <<<<99, 116, 111>>>>, gap |-> "none"],
     [parts |-> <<<<108, 101, 97, 100, 101, 114, 115, 104, 105, 112>>>>, gap |-> "none"]>>,
   emoji |-> <<128640>>],
  \* (developer|engineer|coding|programming|software|debug(?:ging)?|code)
  [alts |-> <<
     [parts |-> <<<<100, 101, 118, 101, 108, 111, 112, 101, 114>>>>, gap |-> "none"],
     [parts |-> <<<<101, 110, 103, 105, 110, 101, 101, 114>>>>, gap |-> "none"],
     [parts |-> <<<<99, 111, 100, 105, 110, 103>>>>, gap |-> "none"],
     [parts |-> <<<<112, 114, 111, 103, 114, 97, 109, 109, 105, 110, 103>>>>, gap |-> "none"],
     [parts |-> <<<<115, 111, 102, 116, 119, 97, 114, 101>>>>, gap |-> "none"],
     [parts |-> <<<<100, 101, 98, 117, 103>>>>, gap |-> "none"],
     [parts |-> <<<<100, 101, 98, 117, 103, 103, 105, 110, 103>>>>, gap |-> "none"],
     [parts |-> <<<<99, 111, 100, 101>>>>, gap |-> "none"]>>,
   emoji |-> <<128104, 8205, 128187>>],
  \* (frontend|backend|full[-\s]?stack|devops|api|rest|graphql)
  [alts |-> <<
     [parts |-> <<<<102, 114, 111, 110, 116, 101, 110, 100>>>>, gap |-> "none"],
     [parts |-> <<<<98, 97, 99, 107, 101, 110, 100>>>>, gap |-> "none"],
     [parts |-> <<<<102, 117, 108, 108, 115, 116, 97, 99, 107>>>>, gap |-> "none"],
     [parts |-> <<<<102, 117, 108, 108, 45, 115, 116, 97, 99, 107>>>>, gap |-> "none"],
     [parts |-> <<<<102, 117, 108, 108>>, <<115, 116, 97, 99, 107>>>>, gap |-> "ws1"],
     [parts |-> <<<<100, 101, 118, 111, 112, 115>>>>, gap |-> "none"],
     [parts |-> <<<<97, 112, 105>>>>, gap |-> "none"],
     [parts |-> <<<<114, 101, 115, 116>>>>, gap |-> "none"],
     [parts |-> <<<<103, 114, 97, 112, 104, 113, 108>>>>, gap |-> "none"]>>,
   emoji |-> <<128187>>],
  \* (python|javascript|typescript|java|golang|rust|cpp|c\+\+)
  [alts |-> <<
     [parts |-> <<<<112, 121, 116, 104, 111, 110>>>>, gap |-> "none"],
     [parts |-> <<<<106, 97, 118, 97, 115, 99, 114, 105, 112, 116>>>>, gap |-> "none"],
     [parts |-> <<<<116, 121, 112, 101, 115, 99, 114, 105, 112, 116>>>>, gap |-> "none"],
     [parts |-> <<<<106, 97, 118, 97>>>>, gap |-> "none"],
     [parts |-> <<<<103, 111, 108, 97, 110, 103>>>>, gap |-> "none"],
     [parts |-> <<<<114, 117, 115, 116>>>>, gap |-> "none"],
     [parts |-> <<<<99, 112, 112>>>>, gap |-> "none"],
     [parts |-> <<<<99, 43, 43>>>>, gap |-> "none"]>>,
   emoji |-> <<128013>>],
  \* (design(?:er)?|creative|art|ui|ux|figma|sketch|visual)
  [alts |-> <<
     [parts |-> <<<<100, 101, 115, 105, 103, 110>>>>, gap |-> "none"],
     [parts |-> <<<<100, 101, 115, 105, 103, 110, 101, 114>>>>, gap |-> "none"],
     [parts |-> <<<<99, 114, 101, 97, 116, 105, 118, 101>>>>, gap |-> "none"],
     [parts |-> <<<<97, 114, 116>>>>, gap |-> "none"],
     [parts |-> <<<<117, 105>>>>, gap |-> "none"],
     [parts |-> <<<<117, 120>>>>, gap |-> "none"],
     [parts |-> <<<<102, 105, 103, 109, 97>>>>, gap |-> "none"],
     [parts |-> <<<<115, 107, 101, 116, 99, 104>>>>, gap |-> "none"],
     [parts |-> <<<<118, 105, 115, 117, 97, 108>>>>, gap |-> "none"]>>,
   emoji |-> <<127912>>],
  \* (writer|writing|copy(?:writing)?|content|blog|article)
  [alts |-> <<
     [parts |-> <<<<119, 114, 105, 116, 101, 114>>>>, gap |-> "none"],
     [parts |-> <<<<119, 114, 105, 116, 105, 110, 103>>>>, gap |-> "none"],
     [parts |-> <<<<99, 111, 112, 121>>>>, gap |-> "none"],
     [parts |-> <<<<99, 111, 112, 121, 119, 114, 105, 116, 105, 110, 103>>>>, gap |-> "none"],
     [parts |-> <<<<99, 111, 110, 116, 101, 110, 116>>>>, gap |-> "none"],
     [parts |-> <<<<98, 108, 111, 103>>>>, gap |-> "none"],
     [parts |-> <<<<97, 114, 116, 105, 99, 108, 101>>>>, gap |-> "none"]>>,
   emoji |-> <<9997, 65039>>],
  \* (video|photo|image|media|editing|film)
  [alts |-> <<
     [parts |-> <<<<118, 105, 100, 101, 111>>>>, gap |-> "none"],
     [parts |-> <<<<112, 104, 111, 116, 111>>>>, gap |-> "none"],
     [parts |-> <<<<105, 109, 97, 103, 101>>>>, gap |-> "none"],
     [parts |-> <<<<109, 101, 100, 105, 97>>>>, gap |-> "none"],
     [parts |-> <<<<101, 100, 105, 116, 105, 110, 103>>>>, gap |-> "none"],
     [parts |-> <<<<102, 105, 108, 109>>>>, gap |-> "none"]>>,
   emoji |-> <<127916>>],
  \* (analytic|data|metric|statistics|insight|report|dashboard)
  [alts |-> <<
     [parts |-> <<<<97, 110, 97, 108, 121, 116, 105, 99>>>>, gap |-> "none"],
     [parts |-> <<<<100, 97, 116, 97>>>>, gap |-> "none"],
     [parts |-> <<<<109, 101, 116, 114, 105, 99>>>>, gap |-> "none"],
     [parts |-> <<<<115, 116, 97, 116, 105, 115, 116, 105, 99, 115>>>>, gap |-> "none"],
     [parts |-> <<<<105, 110, 115, 105, 103, 104, 116>>>>, gap |-> "none"],
     [parts |-> <<<<114, 101, 112, 111, 114, 116>>>>, gap |-> "none"],
     [parts |-> <<<<100, 97, 115, 104, 98, 111, 97, 114, 100>>>>, gap |-> "none"]>>,
   emoji |-> <<128202>>],
  \* (sql|database|query|etl|pipeline|warehouse)
  [alts |-> <<
     [parts |-> <<<<115, 113, 108>>>>, gap |-> "none"],
     [parts |-> <<<<100, 97, 116, 97, 98, 97, 115, 101>>>>, gap |-> "none"],
     [parts |-> <<<<113, 117, 101, 114, 121>>>>, gap |-> "none"],
     [parts |-> <<<<101, 116, 108>>>>, gap |-> "none"],
     [parts |-> <<<<112, 105, 112, 101, 108, 105, 110, 101>>>>, gap |-> "none"],
     [parts |-> <<<<119, 97, 114, 101, 104, 111, 117, 115, 101>>>>, gap |-> "none"]>>,
   emoji |-> <<128452, 65039>>],
  \* (machine\s*learning|ml|ai|artificial\s*intelligence|model|training)
  [alts |-> <<
     [parts |-> <<<<109, 97, 99, 104, 105, 110, 101>>, <<108, 101, 97, 114, 110, 105, 110, 103>>>>, gap |-> "ws*"],
     [parts |-> <<<<109, 108>>>>, gap |-> "none"],
     [parts |-> <<<<97, 105>>>>, gap |-> "none"],
     [parts |-> <<<<97, 114, 116, 105, 102, 105, 99, 105, 97, 108>>, <<105, 110, 116, 101, 108, 108, 105, 103, 101, 110, 99, 101>>>>, gap |-> "ws*"],
     [parts |-> <<<<109, 111, 100, 101, 108>>>>, gap |-> "none"],
     [parts |-> <<<<116, 114, 97, 105, 110, 105, 110, 103>>>>, gap |-> "none"]>>,
   emoji |-> <<129302>>],
  \* (chat|support|communication|customer|service|help)
  [alts |-> <<
     [parts |-> <<<<99, 104, 97, 116>>>>, gap |-> "none"],
     [parts |-> <<<<115, 117, 112, 112, 111, 114, 116>>>>, gap |-> "none"],
     [parts |-> <<<<99, 111, 109, 109, 117, 110, 105, 99, 97, 116, 105, 111, 110>>>>, gap |-> "none"],
     [parts |-> <<<<99, 117, 115, 116, 111, 109, 101, 114>>>>, gap |-> "none"],
     [parts |-> <<<<115, 101, 114, 118, 105, 99, 101>>>>, gap |-> "none"],
     [parts |-> <<<<104, 101, 108, 112>>>>, gap |-> "none"]>>,
   emoji |-> <<128172>>],
  \* (email|newsletter|marketing|outreach|campaign)
  [alts |-> <<
     [parts |-> <<<<101, 109, 97, 105, 108>>>>, gap |-> "none"],
     [parts |-> <<<<110, 101, 119, 115, 108, 101, 116, 116, 101, 114>>>>, gap |-> "none"],
     [parts |-> <<<<109, 97, 114, 107, 101, 116, 105, 110, 103>>>>, gap |-> "none"],
     [parts |-> <<<<111, 117, 116, 114, 101, 97, 99, 104>>>>, gap |-> "none"],
     [parts |-> <<<<99, 97, 109, 112, 97, 105, 103, 110>>>>, gap |-> "none"]>>,
   emoji |-> <<128231>>],
  \* (teacher|education|learning|tutorial|course|mentor|coach)
  [alts |-> <<
     [parts |-> <<<<116, 101, 97, 99, 104, 101, 114>>>>, gap |-> "none"],
     [parts |-> <<<<101, 100, 117, 99, 97, 116, 105, 111, 110>>>>, gap |-> "none"],
     [parts |-> <<<<108, 101, 97, 114, 110, 105, 110, 103>>>>, gap |-> "none"],
     [parts |-> <<<<116, 117, 116, 111, 114, 105, 97, 108>>>>, gap |-> "none"],
     [parts |-> <<<<99, 111, 117, 114, 115, 101>>>>, gap |-> "none"],
     [parts |-> <<<<109, 101, 110, 116, 111, 114>>>>, gap |-> "none"],
     [parts |-> <<<<99, 111, 97, 99, 104>>>>, gap |-> "none"]>>,
   emoji |-> <<128218>>],
  \* (student|academic|research|paper|thesis|study)
  [alts |-> <<
     [parts |-> <<<<115, 116, 117, 100, 101, 110, 116>>>>, gap |-> "none"],
     [parts |-> <<<<97, 99, 97, 100, 101, 109, 105, 99>>>>, gap |-> "none"],
     [parts |-> <<<<114, 101, 115, 101, 97, 114, 99, 104>>>>, gap |-> "none"],
     [parts |-> <<<<112, 97, 112, 101, 114>>>>, gap |-> "none"],
     [parts |-> <<<<116, 104, 101, 115, 105, 115>>>>, gap |-> "none"],
     [parts |-> <<<<115, 116, 117, 100, 121>>>>, gap |-> "none"]>>,
   emoji |-> <<127891>>],
  \* (finance|money|trading|investment|crypto|bitcoin|stock)
  [alts |-> <<
     [parts |-> <<<<102, 105, 110, 97, 110, 99, 101>>>>, gap |-> "none"],
     [parts |-> <<<<109, 111, 110, 101, 121>>>>, gap |-> "none"],
     [parts |-> <<<<116, 114, 97, 100, 105, 110, 103>>>>, gap |-> "none"],
     [parts |-> <<<<105, 110, 118, 101, 115, 116, 109, 101, 110, 116>>>>, gap |-> "none"],
     [parts |-> <<<<99, 114, 121, 112, 116, 111>>>>, gap |-> "none"],
     [parts |-> <<<<98, 105, 116, 99, 111, 105, 110>>>>, gap |-> "none"],
     [parts |-> <<<<115, 116, 111, 99, 107>>>>, gap |-> "none"]>>,
   emoji |-> <<128176>>],
  \* (accounting|budget|invoice|payment)
  [alts |-> <<
     [parts |-> <<<<97, 99, 99, 111, 117, 110, 116, 105, 110, 103>>>>, gap |-> "none"],
     [parts |-> <<<<98, 117, 100, 103, 101, 116>>>>, gap |-> "none"],
     [parts |-> <<<<105, 110, 118, 111, 105, 99, 101>>>>, gap |-> "none"],
     [parts |-> <<<<112, 97, 121, 109, 101, 110, 116>>>>, gap |-> "none"]>>,
   emoji |-> <<128181>>],
  \* (science|research|lab|experiment|discovery|biology|chemistry)
  [alts |-> <<
     [parts |-> <<<<115, 99, 105, 101, 110, 99, 101>>>>, gap |-> "none"],
     [parts |-> <<<<114, 101, 115, 101, 97, 114, 99, 104>>>>, gap |-> "none"],
     [parts |-> <<<<108, 97, 98>>>>, gap |-> "none"],
     [parts |-> <<<<101, 120, 112, 101, 114, 105, 109, 101, 110, 116>>>>, gap |-> "none"],
     [parts |-> <<<<100, 105, 115, 99, 111, 118, 101, 114, 121>>>>, gap |-> "none"],
     [parts |-> <<<<98, 105, 111, 108, 111, 103, 121>>>>, gap |-> "none"],
     [parts |-> <<<<99, 104, 101, 109, 105, 115, 116, 114, 121>>>>, gap |-> "none"]>>,
   emoji |-> <<128300>>],
  \* (math|physics|calculation|formula|equation)
  [alts |-> <<
     [parts |-> <<<<109, 97, 116, 104>>>>, gap |-> "none"],
     [parts |-> <<<<112, 104, 121, 115, 105, 99, 115>>>>, gap |-> "none"],
     [parts |-> <<<<99, 97, 108, 99, 117, 108, 97, 116, 105, 111, 110>>>>, gap |-> "none"],
     [parts |-> <<<<102, 111, 114, 109, 117, 108, 97>>>>, gap |-> "none"],
     [parts |-> <<<<101, 113, 117, 97, 116, 105, 111, 110>>>>, gap |-> "none"]>>,
   emoji |-> <<129518>>],
  \* (assistant|helper|copilot|aid|tool|utility)
  [alts |-> <<
     [parts |-> <<<<97, 115, 115, 105, 115, 116, 97, 110, 116>>>>, gap |-> "none"],
     [parts |-> <<<<104, 101, 108, 112, 101, 114>>>>, gap |-> "none"],
     [parts |-> <<<<99, 111, 112, 105, 108, 111, 116>>>>, gap |-> "none"],
     [parts |-> <<<<97, 105, 100>>>>, gap |-> "none"],
     [parts |-> <<<<116, 111, 111, 108>>>>, gap |-> "none"],
     [parts |-> <<<<117, 116, 105, 108, 105, 116, 121>>>>, gap |-> "none"]>>,
   emoji |-> <<129302>>],
  \* (automation|workflow|script|batch|process)
  [alts |-> <<
     [parts |-> <<<<97, 117, 116, 111, 109, 97, 116, 105, 111, 110>>>>, gap |-> "none"],
     [parts |-> <<<<119, 111, 114, 107, 102, 108, 111, 119>>>>, gap |-> "none"],
     [parts |-> <<<<115, 99, 114, 105, 112, 116>>>>, gap |-> "none"],
     [parts |-> <<<<98, 97, 116, 99, 104>>>>, gap |-> "none"],
     [parts |-> <<<<112, 114, 111, 99, 101, 115, 115>>>>, gap |-> "none"]>>,
   emoji |-> <<9881, 65039>>],
  \* (security|privacy|encrypt|protect|auth)
  [alts |-> <<
     [parts |-> <<<<115, 101, 99, 117, 114, 105, 116, 121>>>>, gap |-> "none"],
     [parts |-> <<<<112, 114, 105, 118, 97, 99, 121>>>>, gap |-> "none"],
     [parts |-> <<<<101, 110, 99, 114, 121, 112, 116>>>>, gap |-> "none"],
     [parts |-> <<<<112, 114, 111, 116, 101, 99, 116>>>>, gap |-> "none"],
     [parts |-> <<<<97, 117, 116, 104>>>>, gap |-> "none"]>>,
   emoji |-> <<128274>>],
  \* (document|pdf|word|excel|spreadsheet|presentation)
  [alts |-> <<
     [parts |-> <<<<100, 111, 99, 117, 109, 101, 110, 116>>>>, gap |-> "none"],
     [parts |-> <<<<112, 100, 102>>>>, gap |-> "none"],
     [parts |-> <<<<119, 111, 114, 100>>>>, gap |-> "none"],
     [parts |-> <<<<101, 120, 99, 101, 108>>>>, gap |-> "none"],
     [parts |-> <<<<115, 112, 114, 101, 97, 100, 115, 104, 101, 101, 116>>>>, gap |-> "none"],
     [parts |-> <<<<112, 114, 101, 115, 101, 110, 116, 97, 116, 105, 111, 110>>>>, gap |-> "none"]>>,
   emoji |-> <<128196>>],
  \* (file|folder|directory|storage|backup|sync)
  [alts |-> <<
     [parts |-> <<<<102, 105, 108, 101>>>>, gap |-> "none"],
     [parts |-> <<<<102, 111, 108, 100, 101, 114>>>>, gap |-> "none"],
     [parts |-> <<<<100, 105, 114, 101, 99, 116, 111, 114, 121>>>>, gap |-> "none"],
     [parts |-> <<<<115, 116, 111, 114, 97, 103, 101>>>>, gap |-> "none"],
     [parts |-> <<<<98, 97, 99, 107, 117, 112>>>>, gap |-> "none"],
     [parts |-> <<<<115, 121, 110, 99>>>>, gap |-> "none"]>>,
   emoji |-> <<128193>>],
  \* (web|website|html|css|browser|internet|url|link)
  [alts |-> <<
     [parts |-> <<<<119, 101, 98>>>>, gap |-> "none"],
     [parts |-> <<<<119, 101, 98, 115, 105, 116, 101>>>>, gap |-> "none"],
     [parts |-> <<<<104, 116, 109, 108>>>>, gap |-> "none"],
     [parts |-> <<<<99, 115, 115>>>>, gap |-> "none"],
     [parts |-> <<<<98, 114, 111, 119, 115, 101, 114>>>>, gap |-> "none"],
     [parts |-> <<<<105, 110, 116, 101, 114, 110, 101, 116>>>>, gap |-> "none"],
     [parts |-> <<<<117, 114, 108>>>>, gap |-> "none"],
     [parts |-> <<<<108, 105, 110, 107>>>>, gap |-> "none"]>>,
   emoji |-> <<127760>>],
  \* (seo|search|google|index|ranking)
  [alts |-> <<
     [parts |-> <<<<115, 101, 111>>>>, gap |-> "none"],
     [parts |-> <<<<115, 101, 97, 114, 99, 104>>>>, gap |-> "none"],
     [parts |-> <<<<103, 111, 111, 103, 108, 101>>>>, gap |-> "none"],
     [parts |-> <<<<105, 110, 100, 101, 120>>>>, gap |-> "none"],
     [parts |-> <<<<114, 97, 110, 107, 105, 110, 103>>>>, gap |-> "none"]>>,
   emoji |-> <<128269>>],
  \* (general|default|universal|common)
  [alts |-> <<
     [parts |-> <<<<103, 101, 110, 101, 114, 97, 108>>>>, gap |-> "none"],
     [parts |-> <<<<100, 101, 102, 97, 117, 108, 116>>>>, gap |-> "none"],
     [parts |-> <<<<117, 110, 105, 118, 101, 114, 115, 97, 108>>>>, gap |-> "none"],
     [parts |-> <<<<99, 111, 109, 109, 111, 110>>>>, gap |-> "none"]>>,
   emoji |-> <<128295>>]
>>

DEFAULT_EMOJI == <<128295>>

\* re.search of one alternative of a rule
AltMatches(alt, text) ==
  IF alt.gap = "none" THEN Contains(text, alt.parts[1])
  ELSE \E i \in 1..(Len(text) + 1) :
         /\ MatchAt(text, alt.parts[1], i)
         /\ LET j == i + Len(alt.parts[1])
            IN IF alt.gap = "ws1"
               THEN j <= Len(text) /\ IsSpace(text[j]) /\ MatchAt(text, alt.parts[2], j + 1)
               ELSE \E k \in j..SpaceRunEnd(text, j) : MatchAt(text, alt.parts[2], k)

RuleMatches(rule, text) == \E a \in 1..Len(rule.alts) : AltMatches(rule.alts[a], text)

RECURSIVE FirstPattern(_, _)
FirstPattern(text, k) ==
  IF k > Len(EMOJI_PATTERNS) THEN DEFAULT_EMOJI
  ELSE IF RuleMatches(EMOJI_PATTERNS[k], text) THEN EMOJI_PATTERNS[k].emoji
  ELSE FirstPattern(text, k + 1)

\* (description or "" + " " + filename): "+" binds tighter than "or", so a
\* truthy description is the whole text; .lower() raises on a non-str
TextToAnalyze(description, filename) ==
  IF Truthy(description) THEN description ELSE S(<<>> \o <<SP>> \o filename)

GenerateEmojiRaises(description, filename) ==
  ~ IsStr(TextToAnalyze(description, filename))

\* generate_emoji that lets the last matching rule win
generate_emoji_last_match(description, filename) ==
  LET text == Lower(TextToAnalyze(description, filename).v)
      hits == { k \in 1..Len(EMOJI_PATTERNS) : RuleMatches(EMOJI_PATTERNS[k], text) }
  IN IF hits = {} THEN DEFAULT_EMOJI ELSE EMOJI_PATTERNS[Max(hits)].emoji

generate_emoji(description, filename) ==
  FirstPattern(Lower(TextToAnalyze(description, filename).v), 1)

RECURSIVE TruthyStrs(_)
TruthyStrs(xs) ==
  IF xs = <<>> THEN <<>>
  ELSE IF Truthy(Head(xs)) THEN <<S(PyStr(Head(xs)))>> \o TruthyStrs(Tail(xs))
  ELSE TruthyStrs(Tail(xs))

normalize_category(category) ==
  IF category = Null THEN L(<<S(S_General)>>)
  ELSE IF IsStr(category) THEN L(<<category>>)
  ELSE IF IsList(category) THEN L(TruthyStrs(category.v))
  ELSE L(<<S(S_General)>>)

S_desc_name == <<100, 101, 115, 99, 114, 105, 112, 116, 105, 111, 110>>
S_cat_name == <<99, 97, 116, 101, 103, 111, 114, 121>>
S_group_name == <<103, 114, 111, 117, 112>>
S_emoji_name == <<101, 109, 111, 106, 105>>

\* compile_file on the text of a readable file: [raised, record]
compile_text(content, stem) ==
  LET parsed == parse_yaml_frontmatter(content)
      frontmatter == parsed.frontmatter
      description == DictGet(frontmatter, S_desc_name, S(<<>>))
      category == DictGet(frontmatter, S_cat_name, DictGet(frontmatter, S_group_name, Null))
      group == normalize_category(category)
      given == DictGet(frontmatter, S_emoji_name, Null)
  IN IF ~ Truthy(given) /\ GenerateEmojiRaises(description, stem)
     THEN [raised |-> TRUE, record |-> Null]
     ELSE [raised |-> FALSE,
           record |-> Rec(S(<<>>), S(stem), description,
                          IF Truthy(given) THEN given ELSE S(generate_emoji(description, stem)),
                          group, S(parsed.full_content))]

\* ---------------------------------------------------------------------
\* compile.py: compile_directory
\* ---------------------------------------------------------------------
\* largest number of entries of the input directory that match the glob
MaxFiles == 2

\* a < b for two str, and for two paths (pathlib compares the tuples of
\* path components)
RECURSIVE SeqLess(_, _)
SeqLess(a, b) ==
  IF b = <<>> THEN FALSE
  ELSE IF a = <<>> THEN TRUE
  ELSE IF Head(a) # Head(b) THEN Head(a) < Head(b)
  ELSE SeqLess(Tail(a), Tail(b))

RECURSIVE PathLess(_, _)
PathLess(a, b) ==
  IF b = <<>> THEN FALSE
  ELSE IF a = <<>> THEN TRUE
  ELSE IF Head(a) # Head(b) THEN SeqLess(Head(a), Head(b))
  ELSE PathLess(Tail(a), Tail(b))

\* sorted(paths)
RECURSIVE SortPaths(_)
SortPaths(paths) ==
  IF paths = {} THEN <<>>
  ELSE LET first == CHOOSE x \in paths : \A y \in paths \ {x} : PathLess(x, y)
       IN <<first>> \o SortPaths(paths \ {first})

DOT == 46
S_md == <<46, 109, 100>>

\* Path.name and Path.stem: the name up to its last "." unless that dot is
\* the first or the last character
PathName(path) == path[Len(path)]
Stem(name) ==
  LET dots == { i \in 1..Len(name) : name[i] = DOT }
  IN IF dots # {} /\ Max(dots) > 1 /\ Max(dots) < Len(name)
     THEN SubSeq(name, 1, Max(dots) - 1)
     ELSE name

\* input_dir.glob("**/*.md") or input_dir.glob("*.md")
Glob(entries, rec) ==
  { path \in DOMAIN entries :
      /\ EndsWith(PathName(path), S_md)
      /\ rec \/ Len(path) = 1 }

\* a.md, a-b.md, a/developer.md and design.md
PathPool == {
  << <<97, 46, 109, 100>> >>,
  << <<97, 45, 98, 46, 109, 100>> >>,
  << <<97>>, <<100, 101, 118, 101, 108, 111, 112, 101, 114, 46, 109, 100>> >>,
  << <<100, 101, 115, 105, 103, 110, 46, 109, 100>> >> }

\* ---\ndescription: "Helps debug frontend code"\ncategory:\n  - Development\n---\n\n# Helper\nBody text.
D_scenario == <<45, 45, 45, 10, 100, 101, 115, 99, 114, 105, 112, 116, 105, 111, 110, 58, 32, 34, 72, 101, 108, 112, 115, 32, 100, 101, 98, 117, 103, 32, 102, 114, 111, 110, 116, 101, 110, 100, 32, 99, 111, 100, 101, 34, 10, 99, 97, 116, 101, 103, 111, 114, 121, 58, 10, 32, 32, 45, 32, 68, 101, 118, 101, 108, 111, 112, 109, 101, 110, 116, 10, 45, 45, 45, 10, 10, 35, 32, 72, 101, 108, 112, 101, 114, 10, 66, 111, 100, 121, 32, 116, 101, 120, 116, 46>>
\* # Helper\nBody text.\n
D_plain == <<35, 32, 72, 101, 108, 112, 101, 114, 10, 66, 111, 100, 121, 32, 116, 101, 120, 116, 46, 10>>
\* ---\ndescription: hello\n---\nBody\n
D_hello == <<45, 45, 45, 10, 100, 101, 115, 99, 114, 105, 112, 116, 105, 111, 110, 58, 32, 104, 101, 108, 108, 111, 10, 45, 45, 45, 10, 66, 111, 100, 121, 10>>
\* ---\ndescription: 12\n---\n\nBody
D_number == <<45, 45, 45, 10, 100, 101, 115, 99, 114, 105, 112, 116, 105, 111, 110, 58, 32, 49, 50, 10, 45, 45, 45, 10, 10, 66, 111, 100, 121>>
\* ---\nemoji: (U+26A1)\ngroup: Dev\n---\n\nx
D_given == <<45, 45, 45, 10, 101, 109, 111, 106, 105, 58, 32, 9889, 10, 103, 114, 111, 117, 112, 58, 32, 68, 101, 118, 10, 45, 45, 45, 10, 10, 120>>
\* ---\nemoji: 7\ndescription: true\ncategory:\n  - ""\n---\nx\n
D_untyped == <<45, 45, 45, 10, 101, 109, 111, 106, 105, 58, 32, 55, 10, 100, 101, 115, 99, 114, 105, 112, 116, 105, 111, 110, 58, 32, 116, 114, 117, 101, 10, 99, 97, 116, 101, 103, 111, 114, 121, 58, 10, 32, 32, 45, 32, 34, 34, 10, 45, 45, 45, 10, 120, 10>>

\* what a directory entry can be: a readable file with one of the texts
\* above or no text at all, a file that cannot be read, or a directory
TextFile(content) == [kind |-> "file", content |-> content]
EntryPool ==
  { TextFile(d) : d \in {D_scenario, D_plain, D_hello, D_number, D_given, D_untyped, <<>>} }
    \cup { [kind |-> "unreadable", content |-> <<>>], [kind |-> "dir", content |-> <<>>] }

Directories ==
  UNION { [paths -> EntryPool] : paths \in { ps \in SUBSET PathPool : Cardinality(ps) <= MaxFiles } }

VARIABLES
  entries,           \* the input directory: path -> entry
  recursive,         \* the recursive argument of compile_directory
  cpc,               \* "start", "loop", "done", "crashed"
  md_files,          \* the sorted list of matching paths
  cpos,              \* number of paths the loop has handled
  compiled_prompts,  \* the records compiled so far
  errors             \* names of the files that could not be read

compVars == <<entries, recursive, cpc, md_files, cpos, compiled_prompts, errors>>

CompInit ==
  /\ entries \in Directories
  /\ recursive \in BOOLEAN
  /\ cpc = "start"
  /\ md_files = <<>>
  /\ cpos = 0
  /\ compiled_prompts = <<>>
  /\ errors = <<>>

\* compile_directory that takes the paths in descending order
CompileGlob_descending ==
  /\ cpc = "start"
  /\ md_files' = [i \in 1..Cardinality(Glob(entries, recursive)) |->
                    SortPaths(Glob(entries, recursive))[Cardinality(Glob(entries, recursive)) + 1 - i]]
  /\ cpc' = IF Glob(entries, recursive) = {} THEN "done" ELSE "loop"
  /\ UNCHANGED <<entries, recursive, cpos, compiled_prompts, errors>>

\* compile_directory up to the loop: glob, sort, return at once when
\* nothing matches
CompileGlob ==
  /\ cpc = "start"
  /\ md_files' = SortPaths(Glob(entries, recursive))
  /\ cpc' = IF Glob(entries, recursive) = {} THEN "done" ELSE "loop"
  /\ UNCHANGED <<entries, recursive, cpos, compiled_prompts, errors>>

\* one iteration of the loop: skip what is not a file, record a failed
\* read, else compile_file; an exception in compile_file ends the batch
CompileNext ==
  /\ cpc = "loop"
  /\ cpos < Len(md_files)
  /\ LET md_file == md_files[cpos + 1]
         entry == entries[md_file]
         r == compile_text(entry.content, Stem(PathName(md_file)))
     IN IF entry.kind = "dir"
        THEN cpos' = cpos + 1 /\ UNCHANGED <<cpc, compiled_prompts, errors>>
        ELSE IF entry.kind = "unreadable"
        THEN /\ cpos' = cpos + 1
             /\ errors' = Append(errors, PathName(md_file))
             /\ UNCHANGED <<cpc, compiled_prompts>>
        ELSE IF r.raised
        THEN cpc' = "crashed" /\ UNCHANGED <<cpos, compiled_prompts, errors>>
        ELSE /\ cpos' = cpos + 1
             /\ compiled_prompts' = Append(compiled_prompts, r.record)
             /\ UNCHANGED <<cpc, errors>>
  /\ UNCHANGED <<entries, recursive, md_files>>

\* the end of compile_directory: assign the ids and return
CompileAssignIds ==
  /\ cpc = "loop"
  /\ cpos = Len(md_files)
  /\ compiled_prompts' = [i \in 1..Len(compiled_prompts) |->
                            [compiled_prompts[i] EXCEPT !["id"] = S(StrInt(i))]]
  /\ cpc' = "done"
  /\ UNCHANGED <<entries, recursive, md_files, cpos, errors>>

\* main after compile_directory: exit with status 1 when nothing was
\* compiled, else write the collection to output_file as a JSON array
CompileWrite ==
  /\ cpc = "done"
  /\ pc = "off"
  /\ pc' = "idle"
  /\ tool' = "compile"
  /\ IF compiled_prompts = <<>>
     THEN disk' = disk /\ exit_code' = "nonzero"
     ELSE disk' = ArrayFile(compiled_prompts) /\ exit_code' = "zero"
  /\ UNCHANGED <<out_file, prompts, runs, repaired, ret>>
  /\ UNCHANGED fixVars
  /\ UNCHANGED valVars
  /\ UNCHANGED compVars

CompNext ==
  \/ CompileGlob
  \/ CompileNext
  \/ CompileAssignIds
  \/ CompileWrite

\* ---------------------------------------------------------------------
\* The parser on one document
\* ---------------------------------------------------------------------
\* largest number of lines of a document
MaxLines == 4

\* "---", "--- ", "", "k: v", "  - x", "Body"
LinePool == {
  <<45, 45, 45>>,
  <<45, 45, 45, 32>>,
  <<>>,
  <<107, 58, 32, 118>>,
  <<32, 32, 45, 32, 120>>,
  <<66, 111, 100, 121>> }

\* every text of at most MaxLines lines, with or without a final newline
Documents ==
  LET bodies == UNION { { Join(ls, <<NL>>) : ls \in [1..n -> LinePool] } : n \in 1..MaxLines }
  IN {<<>>} \cup bodies \cup { b \o <<NL>> : b \in bodies }

VARIABLES
  content,   \* the text given to parse_yaml_frontmatter
  ppc,       \* "start", "parsed"
  parsed     \* what parse_yaml_frontmatter returned

parseVars == <<content, ppc, parsed>>

NoParse == [frontmatter |-> EmptyDict, full_content |-> <<>>]

ParseInit ==
  /\ content \in Documents
  /\ ppc = "start"
  /\ parsed = NoParse

ParseFrontmatter ==
  /\ ppc = "start"
  /\ parsed' = parse_yaml_frontmatter(content)
  /\ ppc' = "parsed"
  /\ UNCHANGED content

ParseNext == ParseFrontmatter

\* ---------------------------------------------------------------------
\* The two classifiers on one search text
\* ---------------------------------------------------------------------
\* descriptions: "", hello, general, "product  manager", "Full-Stack dev",
\* "the writer", HELLO, "debug my code", pm, and two that are not a str
DescriptionPool == {
  S(<<>>),
  S(<<104, 101, 108, 108, 111>>),
  S(<<103, 101, 110, 101, 114, 97, 108>>),
  S(<<112, 114, 111, 100, 117, 99, 116, 32, 32, 109, 97, 110, 97, 103, 101, 114>>),
  S(<<70, 117, 108, 108, 45, 83, 116, 97, 99, 107, 32, 100, 101, 118>>),
  S(<<116, 104, 101, 32, 119, 114, 105, 116, 101, 114>>),
  S(<<72, 69, 76, 76, 79>>),
  S(<<100, 101, 98, 117, 103, 32, 109, 121, 32, 99, 111, 100, 101>>),
  S(<<112, 109>>),
  I(12),
  I(0) }

\* file stems and record names: note, developer, design, frontend-helper
NamePool == {
  <<110, 111, 116, 101>>,
  <<100, 101, 118, 101, 108, 111, 112, 101, 114>>,
  <<100, 101, 115, 105, 103, 110>>,
  <<102, 114, 111, 110, 116, 101, 110, 100, 45, 104, 101, 108, 112, 101, 114>> }

VARIABLES
  description,  \* the description argument
  filename,     \* the filename (compile) or name (repair) argument
  kpc,          \* "start", "compile", "repair"
  symbol        \* what the classifier returned, or that it raised

classVars == <<description, filename, kpc, symbol>>

NoSymbol == [raised |-> FALSE, emoji |-> <<>>]

ClassInit ==
  /\ description \in DescriptionPool
  /\ filename \in NamePool
  /\ kpc = "start"
  /\ symbol = NoSymbol

\* compile.py generate_emoji(description, filename)
ClassifyCompile ==
  /\ kpc = "start"
  /\ symbol' = IF GenerateEmojiRaises(description, filename)
               THEN [raised |-> TRUE, emoji |-> <<>>]
               ELSE [raised |-> FALSE, emoji |-> generate_emoji(description, filename)]
  /\ kpc' = "compile"
  /\ UNCHANGED <<description, filename>>

\* fix.py _generate_emoji(description, name)
ClassifyRepair ==
  /\ kpc = "start"
  /\ symbol' = [raised |-> FALSE, emoji |-> fix_generate_emoji(description, S(filename))]
  /\ kpc' = "repair"
  /\ UNCHANGED <<description, filename>>

ClassNext ==
  \/ ClassifyCompile
  \/ ClassifyRepair

\* ---------------------------------------------------------------------
\* fix_prompt_object on one record
\* ---------------------------------------------------------------------
IdValues == {Absent, I(1), I(5), S(<<49>>)}
NameValues == {S(<<>>), S(T_a), I(7)}
DescriptionValues == {Null, S(T_startup), I(5)}
EmojiValues == {Absent, S(<<88>>), S(T_wrench), S(T_family), L(<<S(T_zap)>>), I(5)}
GroupValues == {Absent, S(T_Finance), S(<<>>), S(<<SP>>), L(<<>>), L(<<S(T_x)>>),
                L(<<S(T_x), Null, S(<<SP>>)>>), I(7)}
PromptValues == {S(<<>>), S(T_hello), S(S_delim), S(T_titled), I(5), Null}

Records ==
  { Rec(i, n, d, e, g, p) :
      i \in IdValues, n \in NameValues, d \in DescriptionValues,
      e \in EmojiValues, g \in GroupValues, p \in PromptValues }

VARIABLES
  record,   \* the record as given
  index,    \* its 0-based index in the list
  rpc,      \* "start", "once", "twice"
  once,     \* the outcome of fix_prompt_object on record
  twice     \* the outcome of fix_prompt_object on that outcome

recVars == <<record, index, rpc, once, twice>>

NoOutcome == FixState(Rec(Absent, Absent, Absent, Absent, Absent, Absent))

RecInit ==
  /\ record \in Records
  /\ index \in 0..(MaxRecords - 1)
  /\ rpc = "start"
  /\ once = NoOutcome
  /\ twice = NoOutcome

RepairOnce ==
  /\ rpc = "start"
  /\ once' = fix_prompt_object(record, index)
  /\ rpc' = "once"
  /\ UNCHANGED <<record, index, twice>>

RepairAgain ==
  /\ rpc = "once"
  /\ ~ once.crashed
  /\ twice' = fix_prompt_object(once.p, index)
  /\ rpc' = "twice"
  /\ UNCHANGED <<record, index, once>>

RecNext ==
  \/ RepairOnce
  \/ RepairAgain

\* ---------------------------------------------------------------------
\* compile.py: simple_yaml_parse on one metadata block body, and on the
\* body with one blank or comment line added
\* ---------------------------------------------------------------------
MaxYamlLines == 3

\* "k:", "k: v", "  - x", "  v", "  a: b"
YamlLinePool == {
  <<107, 58>>,
  <<107, 58, 32, 118>>,
  <<32, 32, 45, 32, 120>>,
  <<32, 32, 118>>,
  <<32, 32, 97, 58, 32, 98>> }

\* "", "# c", "# c: d", "  # c: d"
SkipLinePool == {
  <<>>,
  <<35, 32, 99>>,
  <<35, 32, 99, 58, 32, 100>>,
  <<32, 32, 35, 32, 99, 58, 32, 100>> }

\* every body of at most MaxYamlLines lines
YamlTexts ==
  UNION { { Join(ls, <<NL>>) : ls \in [1..n -> YamlLinePool] } : n \in 1..MaxYamlLines }

\* the body with the line added after its first at lines
InsertLine(text, at, line) ==
  LET ls == SplitLines(text)
  IN Join(SubSeq(ls, 1, at) \o <<line>> \o SubSeq(ls, at + 1, Len(ls)), <<NL>>)

VARIABLES
  yaml_text,      \* the text given to simple_yaml_parse
  skip_line,      \* the blank or comment line to add
  skip_at,        \* the number of lines before the added line
  ypc,            \* "start", "parsed", "edited"
  yaml_result,    \* what simple_yaml_parse returned for yaml_text
  edited_result   \* what it returned for the text with the line added

yamlVars == <<yaml_text, skip_line, skip_at, ypc, yaml_result, edited_result>>

NoResult == [raised |-> FALSE, d |-> EmptyDict]

YamlInit ==
  /\ yaml_text \in YamlTexts
  /\ skip_line \in SkipLinePool
  /\ skip_at \in 0..MaxYamlLines
  /\ skip_at <= Len(SplitLines(yaml_text))
  /\ ypc = "start"
  /\ yaml_result = NoResult
  /\ edited_result = NoResult

YamlParse ==
  /\ ypc = "start"
  /\ yaml_result' = simple_yaml_parse(yaml_text)
  /\ ypc' = "parsed"
  /\ UNCHANGED <<yaml_text, skip_line, skip_at, edited_result>>

YamlParseEdited ==
  /\ ypc = "parsed"
  /\ edited_result' = simple_yaml_parse(InsertLine(yaml_text, skip_at, skip_line))
  /\ ypc' = "edited"
  /\ UNCHANGED <<yaml_text, skip_line, skip_at, yaml_result>>

YamlNext ==
  \/ YamlParse
  \/ YamlParseEdited

\* ---------------------------------------------------------------------
\* Specifications
\* ---------------------------------------------------------------------
vars == <<catVars, compVars, parseVars, classVars, recVars, yamlVars>>

\* the values the variables of a part keep while another part runs
CatOff ==
  /\ disk = NoFile /\ out_file = NoFile /\ pc = "off" /\ prompts = <<>>
  /\ cursor = 0 /\ fixes_applied = <<>> /\ fix_warnings = 0
  /\ dry_run = FALSE /\ output_other = FALSE /\ runs = 0 /\ before = <<>>
  /\ was_repaired = FALSE /\ repaired = FALSE /\ issues = <<>>
  /\ checks_done = 0 /\ verbose = FALSE /\ ret = "none"
  /\ tool = "none" /\ exit_code = "none"

CompOff ==
  /\ entries = EmptyDict /\ recursive = FALSE /\ cpc = "off" /\ md_files = <<>>
  /\ cpos = 0 /\ compiled_prompts = <<>> /\ errors = <<>>

ParseOff == content = <<>> /\ ppc = "off" /\ parsed = NoParse

ClassOff ==
  /\ description = S(<<>>) /\ filename = <<>> /\ kpc = "off" /\ symbol = NoSymbol

RecOff ==
  /\ record = NoOutcome.p /\ index = 0 /\ rpc = "off"
  /\ once = NoOutcome /\ twice = NoOutcome

YamlOff ==
  /\ yaml_text = <<>> /\ skip_line = <<>> /\ skip_at = 0 /\ ypc = "off"
  /\ yaml_result = NoResult /\ edited_result = NoResult

\* the fixer and the validator run on a catalog file
Init == CatInit /\ CompOff /\ ParseOff /\ ClassOff /\ RecOff /\ YamlOff

Next ==
  \/ FixLoad /\ UNCHANGED <<compVars, parseVars, classVars, recVars, yamlVars>>
  \/ FixNext /\ UNCHANGED <<compVars, parseVars, classVars, recVars, yamlVars>>
  \/ FixWrite /\ UNCHANGED <<compVars, parseVars, classVars, recVars, yamlVars>>
  \/ ValidateLoad /\ UNCHANGED <<compVars, parseVars, classVars, recVars, yamlVars>>
  \/ ValidateCheck /\ UNCHANGED <<compVars, parseVars, classVars, recVars, yamlVars>>
  \/ ValidateReturn /\ UNCHANGED <<compVars, parseVars, classVars, recVars, yamlVars>>

Spec == Init /\ [][Next]_vars

\* compile_directory on a directory of documents, main writing the
\* collection, and the validator run on the file written
InitCompile == CompInit /\ CatOff /\ ParseOff /\ ClassOff /\ RecOff /\ YamlOff

NextCompile ==
  \/ CompileGlob /\ UNCHANGED <<catVars, parseVars, classVars, recVars, yamlVars>>
  \/ CompileNext /\ UNCHANGED <<catVars, parseVars, classVars, recVars, yamlVars>>
  \/ CompileAssignIds /\ UNCHANGED <<catVars, parseVars, classVars, recVars, yamlVars>>
  \/ CompileWrite /\ UNCHANGED <<parseVars, classVars, recVars, yamlVars>>
  \/ ValidateLoad /\ UNCHANGED <<compVars, parseVars, classVars, recVars, yamlVars>>
  \/ ValidateCheck /\ UNCHANGED <<compVars, parseVars, classVars, recVars, yamlVars>>
  \/ ValidateReturn /\ UNCHANGED <<compVars, parseVars, classVars, recVars, yamlVars>>

SpecCompile == InitCompile /\ [][NextCompile]_vars

\* parse_yaml_frontmatter on one document
InitParse == ParseInit /\ CatOff /\ CompOff /\ ClassOff /\ RecOff /\ YamlOff

NextParse == ParseFrontmatter /\ UNCHANGED <<catVars, compVars, classVars, recVars, yamlVars>>

SpecParse == InitParse /\ [][NextParse]_vars

\* the classifiers on one description and name
InitClassify == ClassInit /\ CatOff /\ CompOff /\ ParseOff /\ RecOff /\ YamlOff

NextClassify ==
  \/ ClassifyCompile /\ UNCHANGED <<catVars, compVars, parseVars, recVars, yamlVars>>
  \/ ClassifyRepair /\ UNCHANGED <<catVars, compVars, parseVars, recVars, yamlVars>>

SpecClassify == InitClassify /\ [][NextClassify]_vars

\* fix_prompt_object on one record, twice
InitRecord == RecInit /\ CatOff /\ CompOff /\ ParseOff /\ ClassOff /\ YamlOff

NextRecord ==
  \/ RepairOnce /\ UNCHANGED <<catVars, compVars, parseVars, classVars, yamlVars>>
  \/ RepairAgain /\ UNCHANGED <<catVars, compVars, parseVars, classVars, yamlVars>>

SpecRecord == InitRecord /\ [][NextRecord]_vars

\* simple_yaml_parse on one body and on the body with a line added
InitYaml == YamlInit /\ CatOff /\ CompOff /\ ParseOff /\ ClassOff /\ RecOff

NextYaml ==
  \/ YamlParse /\ UNCHANGED <<catVars, compVars, parseVars, classVars, recVars>>
  \/ YamlParseEdited /\ UNCHANGED <<catVars, compVars, parseVars, classVars, recVars>>

SpecYaml == InitYaml /\ [][NextYaml]_vars

\* ---------------------------------------------------------------------
\* Properties
\* ---------------------------------------------------------------------
ErrorIssues == { i \in 1..Len(issues) : issues[i].level = "error" }

\* number of issues of one kind reported for the record at position p
CountIssues(p, field, code) ==
  Cardinality({ i \in 1..Len(issues) :
                  /\ issues[i].pos = p
                  /\ issues[i].field = field
                  /\ issues[i].code = code })

\* C1: Repair is idempotent: when fix_file has run over a list that an
\* earlier run of fix_file wrote, it applies no fix and changes no field of
\* any record.
C1_RepairIdempotent ==
  (pc = "fixed" /\ was_repaired) => (fixes_applied = <<>> /\ prompts = before)

\* C2: after the Repair Engine has run over a catalog, the six checks of the
\* Validator report no error-level issue on the repaired catalog.
C2_NoErrorsAfterRepair ==
  (pc = "validated" /\ repaired) => ErrorIssues = {}

\* C3: after the Repair Engine has run over N records there are still N
\* records in the same order, and the record at 1-based position p has the
\* id str(p), so the ids are "1".."N" without duplicates, whatever the ids
\* were before.
C3_IdsArePositions ==
  pc = "fixed" =>
    /\ Len(prompts) = Len(before)
    /\ \A p \in 1..Len(prompts) :
         /\ prompts[p]["id"] = S(StrInt(p))
         /\ (IsStr(before[p]["name"]) /\ Truthy(before[p]["name"]))
              => prompts[p]["name"] = before[p]["name"]
    /\ \A p, q \in 1..Len(prompts) : p # q => prompts[p]["id"] # prompts[q]["id"]

\* a run over two records that both had the id "3" has finished
C3_Witness ==
  /\ pc = "fixed"
  /\ Len(before) >= 2
  /\ before[1]["id"] = S(<<51>>)
  /\ before[2]["id"] = S(<<51>>)

\* C4: for a record whose group is a string X, fix_prompt_object leaves
\* group as the one-element list [X].
C4_StringGroupWrapped ==
  (rpc \in {"once", "twice"} /\ ~ once.crashed /\ IsStr(record["group"]))
    => once.p["group"] = L(<<record["group"]>>)

\* a record with group "Finance" has been repaired
C4_Witness ==
  /\ rpc = "once"
  /\ ~ once.crashed
  /\ record["group"] = S(T_Finance)
  /\ Len(once.fixes) > 0

\* a line that is "---" followed only by whitespace
IsDelimiterLine(line) ==
  /\ StartsWith(line, S_delim)
  /\ \A i \in 4..Len(line) : IsSpace(line[i])

\* the text begins with a delimited metadata block: its first line is a
\* delimiter line, and a later delimiter line, at least one line below it,
\* is ended by a newline
HasLeadingBlock(text) ==
  LET lines == SplitLines(text)
  IN /\ IsDelimiterLine(lines[1])
     /\ \E j \in 3..(Len(lines) - 1) : IsDelimiterLine(lines[j])

\* C5: for a text that does not begin with a "---" delimited metadata block
\* parse_yaml_frontmatter returns an empty mapping and the text unchanged.
C5_NoBlockUnchanged ==
  (ppc = "parsed" /\ ~ HasLeadingBlock(content))
    => (parsed.frontmatter = EmptyDict /\ parsed.full_content = content)

\* a text that opens with "---" but has no closing delimiter line, and
\* ends in a newline, has been parsed
C5_Witness ==
  /\ ppc = "parsed"
  /\ ~ HasLeadingBlock(content)
  /\ StartsWith(content, S_delim)
  /\ Len(content) > 4
  /\ content[Len(content)] = NL

\* the paths the loop of compile_directory has compiled a record from, in
\* the order of the loop
RECURSIVE CompiledFrom(_)
CompiledFrom(n) ==
  IF n = 0 THEN <<>>
  ELSE IF entries[md_files[n]].kind = "file"
       THEN Append(CompiledFrom(n - 1), md_files[n])
       ELSE CompiledFrom(n - 1)

\* C6: the prompt field of every compiled record equals the text of the
\* document it was compiled from, verbatim.
C6_PromptVerbatim ==
  cpc \in {"loop", "done"} =>
    \A i \in 1..Len(compiled_prompts) :
      compiled_prompts[i]["prompt"] = S(entries[CompiledFrom(cpos)[i]].content)

\* the readable files among the paths that match the glob
ReadableFiles == { path \in Glob(entries, recursive) : entries[path].kind = "file" }

\* 1-based rank of a path among the readable files, in path order
Rank(path) == Cardinality({ q \in ReadableFiles : PathLess(q, path) }) + 1

\* C7: the records compile_directory returns are in ascending file-path
\* order and the record at 1-based position p has the id str(p), also when
\* entries were skipped or could not be read.
C7_DenseIdsInPathOrder ==
  cpc = "done" =>
    /\ Len(compiled_prompts) = Cardinality(ReadableFiles)
    /\ \A path \in ReadableFiles :
         /\ compiled_prompts[Rank(path)]["name"] = S(Stem(PathName(path)))
         /\ compiled_prompts[Rank(path)]["id"] = S(StrInt(Rank(path)))

\* a batch has returned whose first path could not be read or was a
\* directory and whose later path was compiled
C7_Witness ==
  /\ cpc = "done"
  /\ Len(md_files) >= 2
  /\ entries[md_files[1]].kind # "file"
  /\ Len(compiled_prompts) >= 1

\* the rules of each table that match a search text
MatchingPatterns(text) ==
  { k \in 1..Len(EMOJI_PATTERNS) : RuleMatches(EMOJI_PATTERNS[k], text) }
MatchingFixes(text) ==
  { k \in 1..Len(EMOJI_FIXES) : Contains(text, EMOJI_FIXES[k].pattern) }

\* the search text of each classifier
CompileText == Lower(TextToAnalyze(description, filename).v)
RepairText == Lower(PyStr(description) \o <<SP>> \o filename)

\* C8 (as amended): each classifier returns the symbol of the earliest rule
\* of its table that matches the search text, and the default symbol
\* whenever no rule matches.
C8_FirstMatchWins ==
  /\ (kpc = "compile" /\ ~ symbol.raised) =>
       symbol.emoji = IF MatchingPatterns(CompileText) = {} THEN DEFAULT_EMOJI
                      ELSE EMOJI_PATTERNS[Min(MatchingPatterns(CompileText))].emoji
  /\ kpc = "repair" =>
       symbol.emoji = IF MatchingFixes(RepairText) = {} THEN FIX_DEFAULT_EMOJI
                      ELSE EMOJI_FIXES[Min(MatchingFixes(RepairText))].emoji

\* a search text that two rules with different symbols match has been
\* classified by each classifier
C8_Witness ==
  \/ /\ kpc = "compile"
     /\ ~ symbol.raised
     /\ \E k \in MatchingPatterns(CompileText) :
          EMOJI_PATTERNS[k].emoji # symbol.emoji
  \/ /\ kpc = "repair"
     /\ \E k \in MatchingFixes(RepairText) : EMOJI_FIXES[k].emoji # symbol.emoji

\* C8 (as stated): first match wins and the default symbol is returned
\* exactly when no rule matches.
C8_DefaultOnlyWithoutMatch ==
  /\ C8_FirstMatchWins
  /\ (kpc = "compile" /\ ~ symbol.raised) =>
       (symbol.emoji = DEFAULT_EMOJI <=> MatchingPatterns(CompileText) = {})
  /\ kpc = "repair" =>
       (symbol.emoji = FIX_DEFAULT_EMOJI <=> MatchingFixes(RepairText) = {})

\* C9: the compile-time classifier searches description and filename
\* together: when the description is a non-empty text that matches no rule
\* and the filename matches a rule, the symbol is that of the earliest rule
\* matching the concatenation, not the default.
C9_FilenameSearched ==
  (/\ kpc = "compile"
   /\ IsStr(description)
   /\ Truthy(description)
   /\ MatchingPatterns(Lower(description.v)) = {}
   /\ MatchingPatterns(Lower(filename)) # {})
    => symbol.emoji =
         EMOJI_PATTERNS[Min(MatchingPatterns(Lower(description.v \o <<SP>> \o filename)))].emoji

\* the id of the record at position p takes part in the duplicate check:
\* it is present, not null and not a string with a non-digit
IdCounted(p) ==
  LET pid == Get(prompts[p], "id", Null)
  IN pid # Null /\ ~ (IsStr(pid) /\ ~ IsDigit(pid.v))

\* C10 (as amended): once the id check has run, a record has one
\* duplicate-id error when its id takes part in the duplicate check and
\* equals the id of an earlier record, and none otherwise; a record whose
\* id is a digit string other than str(position) has one sequencing
\* warning, and no other record has one.
C10_DuplicateIds ==
  (checks_done >= 3 /\ pc \in {"validate", "validated", "crashed"}) =>
    \A p \in 1..Len(prompts) :
      /\ CountIssues(p, "id", "duplicate") =
           IF IdCounted(p) /\ \E q \in 1..(p - 1) :
                                IdCounted(q) /\ PyEq(prompts[q]["id"], prompts[p]["id"])
           THEN 1 ELSE 0
      /\ CountIssues(p, "id", "not_sequential") =
           IF /\ IsStr(prompts[p]["id"])
              /\ IsDigit(prompts[p]["id"].v)
              /\ prompts[p]["id"].v # StrInt(p)
           THEN 1 ELSE 0

\* a catalog of two records that both have the id "3" has passed the id
\* check
C10_Witness ==
  /\ checks_done >= 3
  /\ pc = "validate"
  /\ Len(prompts) = 2
  /\ prompts[1]["id"] = S(<<51>>)
  /\ prompts[2]["id"] = S(<<51>>)
  /\ CountIssues(2, "id", "duplicate") = 1
  /\ CountIssues(1, "id", "not_sequential") = 1

\* C10 (as stated): one duplicate-id error for each record whose id equals
\* the id of an earlier record, none for any other record.
C10_EveryRepeatedId ==
  (checks_done >= 3 /\ pc \in {"validate", "validated", "crashed"}) =>
    \A p \in 1..Len(prompts) :
      CountIssues(p, "id", "duplicate") =
        IF /\ prompts[p]["id"] # Absent
           /\ \E q \in 1..(p - 1) : prompts[q]["id"] = prompts[p]["id"]
        THEN 1 ELSE 0

\* C11: validating never crashes: whatever the JSON types of the fields,
\* no check of the validator ends the run with an exception.
C11_ValidatorNeverCrashes == ~ (tool = "validate" /\ pc = "crashed")

\* C12: validate_file returns True exactly when the catalog was loaded and
\* no error-level issue was recorded, and False otherwise.
C12_ReturnsWhetherPassed ==
  (tool = "validate" /\ pc \in {"validated", "failed"})
    => (ret = "true" <=> (pc = "validated" /\ ErrorIssues = {}))

\* C13: one malformed document never blocks the batch: compile_directory
\* does not end with an exception, whatever the metadata of a document.
C13_BatchNeverAborts == cpc # "crashed"

\* C14: the group of a compiled record is never empty: normalize_category
\* returns a sequence with at least one element for every category value.
C14_GroupNeverEmpty ==
  cpc \in {"loop", "done"} =>
    \A i \in 1..Len(compiled_prompts) :
      /\ IsList(compiled_prompts[i]["group"])
      /\ Len(compiled_prompts[i]["group"].v) >= 1

\* C15: every record compile_directory returns has the six fields, typed
\* per the data model: id a string of digits, name, description, emoji and
\* prompt strings, group a sequence of strings.
C15_RecordsAreTyped ==
  cpc = "done" =>
    \A i \in 1..Len(compiled_prompts) :
      LET r == compiled_prompts[i]
      IN /\ DOMAIN r = Fields
         /\ \A f \in Fields : r[f] # Absent
         /\ IsStr(r["id"]) /\ r["id"].v # <<>> /\ IsDigit(r["id"].v)
         /\ \A f \in {"name", "description", "emoji", "prompt"} : IsStr(r[f])
         /\ IsList(r["group"])
         /\ \A k \in 1..Len(r["group"].v) : IsStr(r["group"].v[k])

\* the fix log of fix_prompt_object over the first n records of a list
RECURSIVE FixLog(_, _)
FixLog(items, n) ==
  IF n = 0 THEN <<>>
  ELSE FixLog(items, n - 1) \o fix_prompt_object(items[n], n - 1).fixes

\* a list with every record repaired at its own position
RepairedList(items) ==
  [p \in 1..Len(items) |-> fix_prompt_object(items[p], p - 1).p]

C17_LoadFailureFails ==
  pc = "failed" =>
    /\ issues = <<>>
    /\ fixes_applied = <<>>
    /\ exit_code = "nonzero"

\* C18: the fixer and the validator share one notion of a valid emoji: for
\* a non-empty emoji string _is_valid_emoji accepts exactly when
\* _looks_like_emoji accepts, so fix_emoji regenerates the emoji exactly
\* when the validator would flag it.
C18_SameEmojiNotion ==
  (/\ rpc = "once"
   /\ ~ once.crashed
   /\ IsStr(record["emoji"])
   /\ record["emoji"].v # <<>>)
    => /\ is_valid_emoji(record["emoji"]) = looks_like_emoji(record["emoji"])
       /\ (\E i \in 1..Len(once.fixes) : once.fixes[i].field = "emoji")
            <=> looks_like_emoji(record["emoji"]) # "true"

\* C19: prompt repair never discards content: a prompt that is a non-empty
\* string without "---" at its start (after trimming) becomes a metadata
\* block, a blank line and the original text unchanged; a prompt that
\* starts with "---" stays as it is.
C19_PromptContentKept ==
  (/\ rpc = "once"
   /\ ~ once.crashed
   /\ IsStr(record["prompt"])
   /\ record["prompt"].v # <<>>)
    => LET orig == record["prompt"].v
           new == once.p["prompt"]
       IN IF StartsWith(Strip(orig), S_delim)
          THEN new = record["prompt"]
          ELSE /\ IsStr(new)
               /\ LET n == Len(new.v) - Len(orig) - 2
                      block == SubSeq(new.v, 1, n)
                  IN /\ n >= 2 * Len(S_delim) + 1
                     /\ SubSeq(new.v, n + 1, Len(new.v)) = <<NL, NL>> \o orig
                     /\ StartsWith(block, S_delim \o <<NL>>)
                     /\ EndsWith(block, <<NL>> \o S_delim)

\* a record whose prompt is "# My Title\nhi" has been repaired and its
\* prompt has changed
C19_Witness ==
  /\ rpc = "once"
  /\ ~ once.crashed
  /\ record["prompt"] = S(T_titled)
  /\ once.p["prompt"] # record["prompt"]

\* position of a field in the order of the fixes
FieldRank(f) ==
  CASE f = "id" -> 1 [] f = "name" -> 2 [] f = "description" -> 3
    [] f = "emoji" -> 4 [] f = "group" -> 5 [] f = "prompt" -> 6

HasFix(st, field, action) ==
  \E i \in 1..Len(st.fixes) : st.fixes[i] = [field |-> field, action |-> action]

\* the record of the repair scenario and what it becomes at 0-based index i
ScenarioRecord == Rec(I(5), S(<<>>), Null, S(<<88>>), S(T_Finance), S(<<>>))
\* "---\ndescription: \ncategory:\n  - Finance\n---\n\n# prompt-"
T_scenario_head == <<45, 45, 45, 10, 100, 101, 115, 99, 114, 105, 112, 116, 105, 111, 110, 58, 32, 10, 99, 97, 116, 101, 103, 111, 114, 121, 58, 10, 32, 32, 45, 32, 70, 105, 110, 97, 110, 99, 101, 10, 45, 45, 45, 10, 10, 35, 32, 112, 114, 111, 109, 112, 116, 45>>
\* "\n\nYour prompt content here."
T_scenario_tail == <<10, 10, 89, 111, 117, 114, 32, 112, 114, 111, 109, 112, 116, 32, 99, 111, 110, 116, 101, 110, 116, 32, 104, 101, 114, 101, 46>>
ScenarioPrompt(i) == T_scenario_head \o StrInt(i + 1) \o T_scenario_tail

\* C20: the fixes of a record are applied in the order id, name,
\* description, emoji, group, prompt and each reads the fields as repaired
\* so far: a generated name is "prompt-" and the 1-based position, a
\* regenerated emoji is classified from the repaired description and name,
\* a synthesized metadata block holds the repaired description and the
\* first element of the repaired group; the scenario record becomes id
\* str(p), name "prompt-<p>", description "", group ["Finance"] and the
\* minimal prompt with heading "# prompt-<p>".
C20_FixesReadRepairedFields ==
  (rpc = "once" /\ ~ once.crashed) =>
    LET p == once.p
        text == Lower(p["description"].v \o <<SP>> \o p["name"].v)
        head == S_delim \o <<NL>> \o S_description_key \o <<SP>> \o p["description"].v
                  \o <<NL>> \o S_category_key \o <<NL, SP, SP, DASH, SP>>
                  \o p["group"].v[1].v \o <<NL>> \o S_delim \o <<NL, NL>>
    IN /\ \A i, j \in 1..Len(once.fixes) :
            i < j => FieldRank(once.fixes[i].field) < FieldRank(once.fixes[j].field)
       /\ HasFix(once, "name", "generated")
            => p["name"] = S(S_prompt_dash \o StrInt(index + 1))
       /\ HasFix(once, "emoji", "generated")
            => p["emoji"] = S(IF MatchingFixes(text) = {} THEN FIX_DEFAULT_EMOJI
                              ELSE EMOJI_FIXES[Min(MatchingFixes(text))].emoji)
       /\ (HasFix(once, "prompt", "generated") \/ HasFix(once, "prompt", "frontmatter"))
            => StartsWith(p["prompt"].v, head)
       /\ record = ScenarioRecord =>
            /\ p["id"] = S(StrInt(index + 1))
            /\ p["name"] = S(S_prompt_dash \o StrInt(index + 1))
            /\ p["description"] = S(<<>>)
            /\ p["group"] = L(<<S(T_Finance)>>)
            /\ p["prompt"] = S(ScenarioPrompt(index))

\* the scenario record has been repaired at the second position
C20_Witness ==
  /\ rpc = "once"
  /\ ~ once.crashed
  /\ record = ScenarioRecord
  /\ index = 1
  /\ Len(once.fixes) = 6

\* a value is a non-empty list whose entries are all non-blank strings
IsCategoryList(g) ==
  /\ IsList(g)
  /\ Len(g.v) > 0
  /\ \A i \in 1..Len(g.v) : IsStr(g.v[i]) /\ Strip(g.v[i].v) # <<>>

\* C21: after fix_prompt_object returns, the record's group is a non-empty
\* list in which every entry is a non-blank string, whatever the group was
\* before (absent, a string, the empty or a blank string, a non-list, an
\* empty list, a list with non-string or blank entries).
C21_GroupAfterRepair ==
  (rpc = "once" /\ ~ once.crashed) => IsCategoryList(Get(once.p, "group", Absent))

\* a line that opens a top-level key; one that gives no inline value
IsTopLevelKey(line) == HasChar(line, COLON) /\ ~ StartsWith(line, <<SP>>)
KeyOfLine(line) == Strip(BeforeFirst(line, COLON))
IsBareKey(line) ==
  /\ IsTopLevelKey(line)
  /\ KeyOfLine(line) # <<>>
  /\ Strip(AfterFirst(line, COLON)) = <<>>
IsListItemLine(line) == StartsWith(Strip(line), <<DASH, SP>>)

\* the scalar a line gives: the text after its first ':', or the whole line
\* when it has none, stripped and unquoted
ScalarOfLine(line) ==
  StripChar(StripChar(Strip(IF HasChar(line, COLON) THEN AfterFirst(line, COLON)
                            ELSE line), DQUOTE), SQUOTE)

\* C22: when a line opens a top-level key with no inline value and the next
\* line is not a "- " list item (and opens no key itself), that line is
\* taken as the key's scalar value, whether or not it contains ':'; unless
\* the key is opened again later, the mapping holds that value.
C22_NextLineIsScalar ==
  (ypc = "parsed" /\ ~ yaml_result.raised) =>
    LET ls == SplitLines(yaml_text)
    IN \A i \in 1..(Len(ls) - 1) :
         ( /\ IsBareKey(ls[i])
           /\ Strip(ls[i + 1]) # <<>>
           /\ ~ IsListItemLine(ls[i + 1])
           /\ ~ IsTopLevelKey(ls[i + 1])
           /\ \A j \in (i + 2)..Len(ls) :
                ~ (IsTopLevelKey(ls[j]) /\ KeyOfLine(ls[j]) = KeyOfLine(ls[i])) )
         => DictGet(yaml_result.d, KeyOfLine(ls[i]), Absent) = S(ScalarOfLine(ls[i + 1]))

\* C23: blank lines and comment lines are skipped in both passes: adding
\* such a line anywhere in a metadata block body, also between a bare key
\* and its list items and also a comment that contains ':', leaves the
\* mapping that simple_yaml_parse returns unchanged (and so does removing
\* it again).
C23_SkippedLinesChangeNothing ==
  ypc = "edited" => edited_result = yaml_result

\* C24: every symbol fix_generate_emoji can return, each value of
\* EMOJI_FIXES and the default, passes is_valid_emoji, so an emoji that
\* fix_emoji has regenerated is not regenerated again when the repaired
\* record is repaired once more.
C24_GeneratedSymbolsAreValid ==
  /\ (rpc \in {"once", "twice"} /\ ~ once.crashed /\ HasFix(once, "emoji", "generated"))
       => /\ is_valid_emoji(once.p["emoji"]) = "true"
          /\ \A k \in 1..Len(EMOJI_FIXES) :
               is_valid_emoji(S(EMOJI_FIXES[k].emoji)) = "true"
          /\ is_valid_emoji(S(FIX_DEFAULT_EMOJI)) = "true"
  /\ (rpc = "twice" /\ ~ twice.crashed /\ HasFix(once, "emoji", "generated"))
       => ~ HasFix(twice, "emoji", "generated")

\* C25: the compiler produces only records the validator accepts: when the
\* collection that compile_directory returned has been written and the
\* validator runs on it, the validator does not crash and records no issue
\* of level "error".
C25_CompiledCollectionValidates ==
  (cpc = "done" /\ tool = "validate") =>
    /\ pc # "crashed"
    /\ \A i \in 1..Len(issues) : issues[i].level # "error"

====
